---- MODULE Spec2Model ----
(***************************************************************************)
(* Model of the glTF viewer (gltf-viewer/src/lib.rs) and of the            *)
(* calculator (step2-calculator/src/main.rs).                              *)
(*                                                                         *)
(* Spec        : the viewer as a state machine; one action per public      *)
(*               method (load_gltf, create_test_box, render,               *)
(*               rotate_camera, resize).                                   *)
(* FlattenSpec : process_primitive and the accumulation loop of load_gltf  *)
(*               as pure functions applied to scenes drawn from a bounded  *)
(*               set that includes primitives at the 16-bit boundary.      *)
(* CalcSpec    : divide and evaluate_expression of the calculator as pure  *)
(*               functions applied to operands and expression strings      *)
(*               drawn from bounded sets.                                  *)
(* InteractiveSpec : the read-evaluate-print loop of run_interactive_mode  *)
(*               over a finite standard input; InteractiveFairSpec adds    *)
(*               that the running process keeps taking steps.              *)
(*                                                                         *)
(* Vertex positions are modelled by integers.  The camera position and    *)
(* target are vectors of IEEE 754 binary32 values: the arithmetic of       *)
(* rotate_camera rounds as f32 does, and sin, cos, acos and atan2 return   *)
(* an f32 next to the real value, the one or the other from call to call.  *)
(* The view and projection matrices are kept as the arguments they are     *)
(* built from, the aspect ratio as the f32 it is.  f64 values of the       *)
(* calculator are IEEE 754 binary64 values: every operation is rounded to  *)
(* nearest with ties to even, and zeros are signed. Next to its value a    *)
(* result carries the arithmetic calls that produced it. A printed line    *)
(* keeps the number it shows, not the decimal text of the number.          *)
(***************************************************************************)
EXTENDS Integers, Sequences, FiniteSets, TLC

VARIABLES
    vertex_buffer,      \* contents of the GPU buffer behind self.vertex_buffer
    index_buffer,       \* contents of the GPU buffer behind self.index_buffer
    index_count,        \* self.index_count
    view_matrix,        \* self.view_matrix
    projection_matrix,  \* self.projection_matrix
    camera_position,    \* self.camera_position
    camera_target,      \* self.camera_target
    viewport,           \* the GL viewport rectangle
    gl_calls,           \* GL commands issued by the most recent public call
    last_call,          \* the most recent public call and what it returned
    orbits,             \* number of rotate_camera calls made so far
    panicked,           \* a panic unwound out of a public call
    overflow_checks,    \* build profile: arithmetic overflow panics (debug) or wraps (release)
    fl_scene,           \* FlattenSpec: the decoded scene given as input
    fl_stage,           \* FlattenSpec: "input", "flattened" or "accumulated"
    fl_flat,            \* FlattenSpec: process_primitive of every primitive, in file order
    fl_acc,             \* FlattenSpec: result of the accumulation loop
    calc_kind,          \* CalcSpec: the function applied, "divide" or "evaluate"
    calc_expr,          \* CalcSpec: the expression string given to evaluate_expression
    calc_a,             \* CalcSpec: first argument of divide
    calc_b,             \* CalcSpec: second argument of divide
    calc_stage,         \* CalcSpec: "input" or "done"
    calc_result,        \* CalcSpec: what the function returned
    it_stdin,           \* InteractiveSpec: the lines of standard input not yet read
    it_pc,              \* InteractiveSpec: position in run_interactive_mode
    it_stdout           \* InteractiveSpec: the lines printed so far

viewer_vars == <<vertex_buffer, index_buffer, index_count, view_matrix,
                 projection_matrix, camera_position, camera_target, viewport,
                 gl_calls, last_call, orbits, panicked>>
fl_vars == <<fl_scene, fl_stage, fl_flat, fl_acc>>
calc_vars == <<calc_kind, calc_expr, calc_a, calc_b, calc_stage, calc_result>>
it_vars == <<it_stdin, it_pc, it_stdout>>
vars == <<viewer_vars, overflow_checks, fl_vars, calc_vars, it_vars>>

----------------------------------------------------------------------------
(* Bounds of the model *)

\* positions per primitive run from 0 to MaxPositions (plus the 16-bit boundary cases)
MaxPositions == 3
\* a mesh of the viewer specification holds at most MaxMeshPrims primitives
MaxMeshPrims == 2
\* rotate_camera is called at most MaxOrbits times
MaxOrbits == 1
\* an expression given to evaluate_expression holds at most MaxOps binary operators
MaxOps == 2
\* an argument of divide is a fraction of integers up to MaxOperand
MaxOperand == 3
\* the standard input of the interactive mode holds at most MaxLines lines
MaxLines == 2

(* Program constants *)

U16_MAX == 65535
U16_MOD == U16_MAX + 1
I32_MAX == 2147483647

----------------------------------------------------------------------------
(* Integer casts *)

\* `x as u16`
AsU16(x) == x % U16_MOD

\* `x as i32` of a non-negative value below 2^32
AsI32(x) == IF x <= I32_MAX THEN x ELSE (x - I32_MAX) - I32_MAX - 2

----------------------------------------------------------------------------
(* Primitives, as the gltf reader presents them *)

\* iter.collect(): the items of an iterator as a Vec
Collect(items) == items \o <<>>

\* A primitive is described by its accessors: whether it has a POSITION
\* accessor and how many elements that holds, and the component width and
\* the values of its index accessor (index_width NoIndices: no index accessor).
Prim(mode, has_positions, position_count, position_seed, index_width, index_values) ==
    [mode |-> mode, has_positions |-> has_positions,
     position_count |-> position_count, position_seed |-> position_seed,
     index_width |-> index_width, index_values |-> index_values]

\* reader.read_positions().collect(): the position_count triples the accessor
\* holds; the component values are distinct per vertex and per seed
ReadPositions(primitive) ==
    Collect([k \in 1..primitive.position_count |-> <<primitive.position_seed, k - 1, 0>>])

NoIndices == 0

OkNone == [tag |-> "None", vertices |-> <<>>, indices |-> <<>>]
OkSome(vertices, indices) == [tag |-> "Some", vertices |-> vertices, indices |-> indices]

\* positions.iter().flat_map(|pos| pos.iter().cloned()).collect()
FlattenPositions(positions) ==
    Collect([k \in 1..(3 * Len(positions)) |->
                positions[((k - 1) \div 3) + 1][((k - 1) % 3) + 1]])

\* mutant of NarrowU32: the cast wraps modulo 2^16
NarrowU32Wrapping(i) == AsU16(i)

\* the U32 arm of read_indices
NarrowU32(i) == IF i > U16_MAX THEN U16_MAX ELSE AsU16(i)

\* the U8 and U16 arms of read_indices
WidenU8(i) == AsU16(i)

\* (0..positions.len() as u16).collect()
SequentialIndices(n) == Collect([k \in 1..AsU16(n) |-> k - 1])

ReadIndices(primitive) ==
    LET vals == primitive.index_values IN
    CASE primitive.index_width = 8  -> Collect([k \in 1..Len(vals) |-> WidenU8(vals[k])])
      [] primitive.index_width = 16 -> Collect(vals)
      [] primitive.index_width = 32 -> Collect([k \in 1..Len(vals) |-> NarrowU32(vals[k])])

process_primitive(primitive) ==
    IF ~primitive.has_positions THEN OkNone
    ELSE LET positions == ReadPositions(primitive)
             vertices == FlattenPositions(positions)
             indices == IF primitive.index_width # NoIndices
                        THEN ReadIndices(primitive)
                        ELSE SequentialIndices(Len(positions))
         IN IF Len(vertices) = 0 THEN OkNone
            ELSE IF Len(indices) = 0 THEN OkNone
            ELSE OkSome(vertices, indices)

----------------------------------------------------------------------------
(* The accumulation loop of load_gltf *)

EmptyAcc == [all_vertices |-> <<>>, all_indices |-> <<>>, index_offset |-> 0,
             panicked |-> FALSE]

\* mutant of AccumulatePrimitive: a skipped primitive still advances
\* index_offset by the length of its position accessor
AccumulatePrimitiveSkipAdvances(acc, primitive, checks) ==
    LET r == process_primitive(primitive) IN
    IF r.tag = "Some"
    THEN LET overflow_index == \E k \in 1..Len(r.indices) :
                                   r.indices[k] + acc.index_offset > U16_MAX
             added == AsU16(Len(r.vertices) \div 3)
             overflow_offset == acc.index_offset + added > U16_MAX
         IN IF checks /\ (overflow_index \/ overflow_offset)
            THEN [acc EXCEPT !.panicked = TRUE]
            ELSE [all_vertices |-> acc.all_vertices \o r.vertices,
                  all_indices  |-> acc.all_indices \o
                                   [k \in 1..Len(r.indices) |->
                                       AsU16(r.indices[k] + acc.index_offset)],
                  index_offset |-> AsU16(acc.index_offset + added),
                  panicked     |-> FALSE]
    ELSE [acc EXCEPT !.index_offset =
                        AsU16(acc.index_offset + primitive.position_count)]

\* one iteration of the inner loop: the match on process_primitive
AccumulatePrimitive(acc, primitive, checks) ==
    LET r == process_primitive(primitive) IN
    IF r.tag = "Some"
    THEN LET overflow_index == \E k \in 1..Len(r.indices) :
                                   r.indices[k] + acc.index_offset > U16_MAX
             added == AsU16(Len(r.vertices) \div 3)
             overflow_offset == acc.index_offset + added > U16_MAX
         IN IF checks /\ (overflow_index \/ overflow_offset)
            THEN [acc EXCEPT !.panicked = TRUE]
            ELSE [all_vertices |-> acc.all_vertices \o r.vertices,
                  all_indices  |-> acc.all_indices \o
                                   [k \in 1..Len(r.indices) |->
                                       AsU16(r.indices[k] + acc.index_offset)],
                  index_offset |-> AsU16(acc.index_offset + added),
                  panicked     |-> FALSE]
    ELSE acc

RECURSIVE AccumulateMesh(_, _, _)
AccumulateMesh(acc, primitives, checks) ==
    IF acc.panicked \/ primitives = <<>> THEN acc
    ELSE AccumulateMesh(AccumulatePrimitive(acc, Head(primitives), checks),
                        Tail(primitives), checks)

RECURSIVE AccumulateMeshes(_, _, _)
AccumulateMeshes(acc, meshes, checks) ==
    IF acc.panicked \/ meshes = <<>> THEN acc
    ELSE AccumulateMeshes(AccumulateMesh(acc, Head(meshes), checks),
                          Tail(meshes), checks)

----------------------------------------------------------------------------
(* Natural numbers of any size, for the floating-point arithmetic:
   sequences of 15-bit limbs, the least significant first, without leading
   zero limbs; <<>> is 0.  The passes over the limbs that carry a value
   along split the range in halves. *)

LIMB_BITS == 15
BASE == 2 ^ LIMB_BITS

\* the numbers; a pass over limbs that carries a small value along gives
\* <<the limbs, the carry out>>
Big == Seq(Nat)
BigPass == Big \X Nat

Max(a, b) == IF a > b THEN a ELSE b
Abs(n) == IF n < 0 THEN 0 - n ELSE n

BigNorm[x \in Big] ==
    IF \A i \in 1..Len(x) : x[i] = 0 THEN <<>>
    ELSE SubSeq(x, 1, CHOOSE i \in 1..Len(x) :
                        x[i] # 0 /\ \A j \in (i + 1)..Len(x) : x[j] = 0)

BigFromNat[n \in Nat] ==
    IF n = 0 THEN <<>> ELSE <<n % BASE>> \o BigFromNat[n \div BASE]

Limb(x, i) == IF i <= Len(x) THEN x[i] ELSE 0

\* the limbs of a pass and its last carry as one more limb
BigWithCarry[r \in BigPass] == IF r[2] = 0 THEN r[1] ELSE r[1] \o <<r[2]>>

\* limbs lo..hi of x + y + carry, and the carry out of limb hi
BigAddRange[x \in Big, y \in Big, lo \in Nat, hi \in Nat, carry \in Nat] ==
    IF lo = hi
    THEN LET s == Limb(x, lo) + Limb(y, lo) + carry
         IN <<<<s % BASE>>, s \div BASE>>
    ELSE [low \in BigPass |->
            [high \in BigPass |-> <<low[1] \o high[1], high[2]>>]
                [BigAddRange[x, y, (lo + hi) \div 2 + 1, hi, low[2]]]]
            [BigAddRange[x, y, lo, (lo + hi) \div 2, carry]]

BigAdd[x \in Big, y \in Big] ==
    IF x = <<>> THEN y
    ELSE IF y = <<>> THEN x
    ELSE BigWithCarry[BigAddRange[x, y, 1, Max(Len(x), Len(y)), 0]]

\* limbs lo..hi of x - y - borrow, and the borrow out of limb hi
BigSubRange[x \in Big, y \in Big, lo \in Nat, hi \in Nat, borrow \in Nat] ==
    IF lo = hi
    THEN LET d == Limb(x, lo) - Limb(y, lo) - borrow
         IN IF d < 0 THEN <<<<d + BASE>>, 1>> ELSE <<<<d>>, 0>>
    ELSE [low \in BigPass |->
            [high \in BigPass |-> <<low[1] \o high[1], high[2]>>]
                [BigSubRange[x, y, (lo + hi) \div 2 + 1, hi, low[2]]]]
            [BigSubRange[x, y, lo, (lo + hi) \div 2, borrow]]

\* x - y for x >= y
BigSub[x \in Big, y \in Big] ==
    IF y = <<>> THEN x ELSE BigNorm[BigSubRange[x, y, 1, Len(x), 0][1]]

\* -1, 0 or 1 as x is below, equal to or above y
BigCmp[x \in Big, y \in Big] ==
    IF Len(x) < Len(y) THEN 0 - 1
    ELSE IF Len(x) > Len(y) THEN 1
    ELSE IF x = y THEN 0
    ELSE LET top == CHOOSE i \in 1..Len(x) :
                       x[i] # y[i] /\ \A j \in (i + 1)..Len(x) : x[j] = y[j]
         IN IF x[top] < y[top] THEN 0 - 1 ELSE 1

\* limbs lo..hi of x * k + carry, and the carry out of limb hi
BigMulSmallRange[x \in Big, k \in Nat, lo \in Nat, hi \in Nat, carry \in Nat] ==
    IF lo = hi
    THEN LET p == x[lo] * k + carry
         IN <<<<p % BASE>>, p \div BASE>>
    ELSE [low \in BigPass |->
            [high \in BigPass |-> <<low[1] \o high[1], high[2]>>]
                [BigMulSmallRange[x, k, (lo + hi) \div 2 + 1, hi, low[2]]]]
            [BigMulSmallRange[x, k, lo, (lo + hi) \div 2, carry]]

\* x * k for 0 <= k < BASE
BigMulSmall[x \in Big, k \in Nat] ==
    IF x = <<>> \/ k = 0 THEN <<>>
    ELSE IF k = 1 THEN x
    ELSE BigWithCarry[BigMulSmallRange[x, k, 1, Len(x), 0]]

ZeroLimbs(n) == [i \in 1..n |-> 0] \o <<>>

\* x * BASE^n
BigShiftLimbs[x \in Big, n \in Nat] ==
    IF x = <<>> THEN <<>> ELSE ZeroLimbs(n) \o x

\* x times the limbs lo..hi of y, at their place
BigMulRange[x \in Big, y \in Big, lo \in Nat, hi \in Nat] ==
    IF lo = hi THEN BigShiftLimbs[BigMulSmall[x, y[lo]], lo - 1]
    ELSE BigAdd[BigMulRange[x, y, lo, (lo + hi) \div 2],
                BigMulRange[x, y, (lo + hi) \div 2 + 1, hi]]

BigMul[x \in Big, y \in Big] ==
    IF x = <<>> \/ y = <<>> THEN <<>> ELSE BigMulRange[x, y, 1, Len(y)]

\* x * 2^n
BigShiftLeft[x \in Big, n \in Nat] ==
    BigShiftLimbs[BigMulSmall[x, 2 ^ (n % LIMB_BITS)], n \div LIMB_BITS]

Reverse[s \in Big] == [i \in 1..Len(s) |-> s[Len(s) + 1 - i]] \o <<>>

\* the quotient of rem * BASE^(hi - lo + 1) + x[lo..hi] by d, its limbs
\* from the most significant one, and the remainder
BigDivSmallRange[x \in Big, d \in Nat, hi \in Nat, lo \in Nat, rem \in Nat] ==
    IF lo = hi
    THEN LET cur == rem * BASE + x[hi]
         IN <<<<cur \div d>>, cur % d>>
    ELSE [high \in BigPass |->
            [low \in BigPass |-> <<high[1] \o low[1], low[2]>>]
                [BigDivSmallRange[x, d, (lo + hi) \div 2, lo, high[2]]]]
            [BigDivSmallRange[x, d, hi, (lo + hi) \div 2 + 1, rem]]

\* quotient and remainder of x by d for 0 < d < BASE
BigDivSmall[x \in Big, d \in Nat] ==
    IF x = <<>> THEN <<<<>>, 0>>
    ELSE IF d = 1 THEN <<x, 0>>
    ELSE [qr \in BigPass |-> <<BigNorm[Reverse[qr[1]]], qr[2]>>]
            [BigDivSmallRange[x, d, Len(x), 1, 0]]

\* floor(x / 2^n)
BigShiftRight[x \in Big, n \in Nat] ==
    IF n \div LIMB_BITS >= Len(x) THEN <<>>
    ELSE BigDivSmall[SubSeq(x, n \div LIMB_BITS + 1, Len(x)),
                     2 ^ (n % LIMB_BITS)][1]

\* number of bits of x; 0 for 0
BigBitLen[x \in Big] ==
    IF x = <<>> THEN 0
    ELSE (Len(x) - 1) * LIMB_BITS
         + (CHOOSE b \in 1..LIMB_BITS : 2 ^ (b - 1) <= x[Len(x)] /\ x[Len(x)] < 2 ^ b)

BigIsOdd[x \in Big] == x # <<>> /\ x[1] % 2 = 1

\* number of zero bits below the lowest set bit of x > 0
BigTrailingZeros[x \in Big] ==
    LET i == CHOOSE n \in 1..Len(x) : x[n] # 0 /\ \A j \in 1..(n - 1) : x[j] = 0
    IN (i - 1) * LIMB_BITS
       + (CHOOSE b \in 0..(LIMB_BITS - 1) :
            x[i] % (2 ^ b) = 0 /\ (x[i] \div (2 ^ b)) % 2 = 1)

\* the value of an x of at most two limbs
BigToNat[x \in Big] == Limb(x, 1) + Limb(x, 2) * BASE

\* the quotient of the leading bits of x by the leading 15 bits of y plus
\* one, for x < y * BASE and a y of two limbs or more: at most 6 below the
\* quotient of x by y
BigQuotientEstimate[x \in Big, y \in Big] ==
    BigToNat[BigShiftRight[x, BigBitLen[y] - LIMB_BITS]]
    \div (BigToNat[BigShiftRight[y, BigBitLen[y] - LIMB_BITS]] + 1)

\* the largest limb whose product with y is at most x, from an estimate
BigQuotientLimb[x \in Big, y \in Big, est \in Nat] ==
    est + Cardinality({k \in 1..6 : BigCmp[BigMulSmall[y, est + k], x] <= 0})

\* the limb that cur gives to a quotient by y, and the remainder, for
\* cur < y * BASE
BigDivLimb[cur \in Big, y \in Big] ==
    IF BigCmp[cur, y] < 0 THEN <<<<0>>, cur>>
    ELSE [q \in Nat |-> <<<<q>>, BigSub[cur, BigMulSmall[y, q]]>>]
            [BigQuotientLimb[cur, y, BigQuotientEstimate[cur, y]]]

\* the quotient of rem * BASE^(hi - lo + 1) + x[lo..hi] by y, its limbs
\* from the most significant one, and the remainder, for rem < y
BigDivRange[x \in Big, y \in Big, hi \in Nat, lo \in Nat, rem \in Big] ==
    IF lo = hi THEN BigDivLimb[BigNorm[<<x[hi]>> \o rem], y]
    ELSE [high \in Big \X Big |->
            [low \in Big \X Big |-> <<high[1] \o low[1], low[2]>>]
                [BigDivRange[x, y, (lo + hi) \div 2, lo, high[2]]]]
            [BigDivRange[x, y, hi, (lo + hi) \div 2 + 1, rem]]

\* quotient and remainder of x by y > 0
BigDivMod[x \in Big, y \in Big] ==
    IF Len(y) = 1
    THEN [qr \in BigPass |-> <<qr[1], BigFromNat[qr[2]]>>][BigDivSmall[x, y[1]]]
    ELSE IF BigCmp[x, y] < 0 THEN <<<<>>, x>>
    ELSE [qr \in Big \X Big |-> <<BigNorm[Reverse[qr[1]]], qr[2]>>]
            [BigDivRange[x, y, Len(x), 1, <<>>]]

\* the following guess of Newton's iteration for the square root of x
BigSqrtNext[x \in Big, guess \in Big] ==
    BigDivSmall[BigAdd[guess, BigDivMod[x, guess][1]], 2][1]

\* floor of the square root of x > 0 by Newton's iteration from a guess
\* above it, with the guess that follows
BigSqrtFrom[x \in Big, guess \in Big, next \in Big] ==
    IF BigCmp[next, guess] >= 0 THEN guess
    ELSE BigSqrtFrom[x, next, BigSqrtNext[x, next]]

BigSqrtStart[x \in Big] == BigShiftLeft[<<1>>, (BigBitLen[x] + 1) \div 2]

BigSqrt[x \in Big] ==
    BigSqrtFrom[x, BigSqrtStart[x], BigSqrtNext[x, BigSqrtStart[x]]]

\* 10^k with the square of 10^(k \div 2)
BigPow10Step[k \in Nat, half \in Big] ==
    BigMulSmall[BigMul[half, half], IF k % 2 = 1 THEN 10 ELSE 1]

BigPow10[k \in Nat] ==
    IF k = 0 THEN <<1>> ELSE BigPow10Step[k, BigPow10[k \div 2]]

----------------------------------------------------------------------------
(* f64: IEEE 754 binary64 values and their arithmetic, rounded to nearest
   with ties to even *)

F64_MANT_BITS == 53
F64_MAX_EXP == 1024
F64_MIN_EXP == 0 - 1074

\* a finite value other than zero is sign * m * 2^e with m odd; m is <<>>
\* and e is 0 in the other kinds
F64Value ==
    [kind : {"finite", "zero", "inf", "nan"}, sign : {1, 0 - 1}, m : Big, e : Int]

F64(kind, sign, m, e) == [kind |-> kind, sign |-> sign, m |-> m, e |-> e]
F64Zero(sign) == F64("zero", sign, <<>>, 0)
F64Inf(sign) == F64("inf", sign, <<>>, 0)
F64NaN == F64("nan", 1, <<>>, 0)

\* sign * m * 2^e for an m that fits the mantissa, brought to an odd m
F64Exact[sign \in Int, m \in Big, e \in Int] ==
    F64("finite", sign, BigShiftRight[m, BigTrailingZeros[m]],
        e + BigTrailingZeros[m])

\* sign * rounded * 2^e, which is infinite past the largest exponent
F64Pack[sign \in Int, rounded \in Big, e \in Int] ==
    IF rounded = <<>> THEN F64Zero(sign)
    ELSE IF BigBitLen[rounded] + e > F64_MAX_EXP THEN F64Inf(sign)
    ELSE F64Exact[sign, rounded, e]

\* q or the number after it: low are the bits that q leaves out of a
\* quotient, half is the half of the last place of q, and inexact tells that
\* the quotient itself was cut
F64Nearest[q \in Big, low \in Big, half \in Big, inexact \in BOOLEAN] ==
    IF \/ BigCmp[low, half] > 0
       \/ BigCmp[low, half] = 0 /\ (inexact \/ BigIsOdd[q])
    THEN BigAdd[q, <<1>>]
    ELSE q

\* the f64 nearest to sign * quot * 2^e, for a quot whose last drop bits
\* are more than the mantissa holds, and q the quot without them
F64RoundDrop[sign \in Int, quot \in Big, q \in Big, inexact \in BOOLEAN, e \in Int, drop \in Nat] ==
    F64Pack[sign,
            F64Nearest[q, BigSub[quot, BigShiftLeft[q, drop]],
                       BigShiftLeft[<<1>>, drop - 1], inexact],
            e + drop]

\* the number of last bits of a quotient of the given number of bits at the
\* exponent e that the mantissa does not hold: a subnormal result keeps
\* fewer bits
F64Drop(bits, e) ==
    IF e + bits - F64_MANT_BITS < F64_MIN_EXP THEN F64_MIN_EXP - e
    ELSE bits - F64_MANT_BITS

\* the f64 nearest to sign * (quot + r) * 2^e with 0 <= r < 1 and r = 0 if
\* and only if rem is 0, for a quot of 55 bits or more
F64RoundQuotient[sign \in Int, quot \in Big, rem \in Big, e \in Int] ==
    F64RoundDrop[sign, quot,
                 BigShiftRight[quot, F64Drop(BigBitLen[quot], e)],
                 rem # <<>>, e, F64Drop(BigBitLen[quot], e)]

\* how far n is moved up before the division by d for the quotient to have
\* 55 bits or more
F64Scale[n \in Big, d \in Big] ==
    Max(0, F64_MANT_BITS + 3 - (BigBitLen[n] - BigBitLen[d]))

\* the f64 nearest to sign * (n * 2^scale / d) * 2^(e - scale)
F64RoundScaled[sign \in Int, n \in Big, d \in Big, e \in Int, scale \in Nat] ==
    [qr \in Big \X Big |-> F64RoundQuotient[sign, qr[1], qr[2], e - scale]]
        [BigDivMod[BigShiftLeft[n, scale], d]]

\* the f64 nearest to sign * (n / d) * 2^e, for n > 0 and d > 0
F64Round[sign \in Int, n \in Big, d \in Big, e \in Int] ==
    IF /\ d = <<1>>
       /\ BigBitLen[n] <= F64_MANT_BITS
       /\ e >= F64_MIN_EXP
       /\ BigBitLen[n] + e <= F64_MAX_EXP
    THEN F64Exact[sign, n, e]
    ELSE F64RoundScaled[sign, n, d, e, F64Scale[n, d]]

F64FromInt[n \in Int] ==
    IF n = 0 THEN F64Zero(1)
    ELSE F64Round[IF n < 0 THEN 0 - 1 ELSE 1, BigFromNat[Abs(n)], <<1>>, 0]

\* -a
F64Neg[a \in F64Value] ==
    IF a.kind = "nan" THEN a ELSE [a EXCEPT !.sign = 0 - a.sign]

\* the sum of a_sign * na and b_sign * nb, times 2^e
F64AddAligned[a_sign \in Int, na \in Big, b_sign \in Int, nb \in Big, e \in Int] ==
    IF a_sign = b_sign THEN F64Round[a_sign, BigAdd[na, nb], <<1>>, e]
    ELSE IF BigCmp[na, nb] = 0 THEN F64Zero(1)
    ELSE IF BigCmp[na, nb] > 0 THEN F64Round[a_sign, BigSub[na, nb], <<1>>, e]
    ELSE F64Round[b_sign, BigSub[nb, na], <<1>>, e]

\* a + b: the mantissas are brought to the lower of the two exponents
F64Add[a \in F64Value, b \in F64Value] ==
    IF a.kind = "nan" \/ b.kind = "nan" THEN F64NaN
    ELSE IF a.kind = "inf"
    THEN IF b.kind = "inf" /\ b.sign # a.sign THEN F64NaN ELSE a
    ELSE IF b.kind = "inf" THEN b
    ELSE IF a.kind = "zero"
    THEN IF b.kind = "zero"
         THEN F64Zero(IF a.sign < 0 /\ b.sign < 0 THEN 0 - 1 ELSE 1)
         ELSE b
    ELSE IF b.kind = "zero" THEN a
    ELSE LET e == IF a.e < b.e THEN a.e ELSE b.e
         IN F64AddAligned[a.sign, BigShiftLeft[a.m, a.e - e],
                          b.sign, BigShiftLeft[b.m, b.e - e], e]

\* a - b
F64Sub[a \in F64Value, b \in F64Value] == F64Add[a, F64Neg[b]]

\* a * b
F64Mul[a \in F64Value, b \in F64Value] ==
    IF a.kind = "nan" \/ b.kind = "nan" THEN F64NaN
    ELSE IF a.kind = "inf" \/ b.kind = "inf"
    THEN IF a.kind = "zero" \/ b.kind = "zero" THEN F64NaN
         ELSE F64Inf(a.sign * b.sign)
    ELSE IF a.kind = "zero" \/ b.kind = "zero" THEN F64Zero(a.sign * b.sign)
    ELSE F64Round[a.sign * b.sign, BigMul[a.m, b.m], <<1>>, a.e + b.e]

\* a / b
F64Div[a \in F64Value, b \in F64Value] ==
    IF a.kind = "nan" \/ b.kind = "nan" THEN F64NaN
    ELSE IF a.kind = "inf"
    THEN IF b.kind = "inf" THEN F64NaN ELSE F64Inf(a.sign * b.sign)
    ELSE IF b.kind = "inf" THEN F64Zero(a.sign * b.sign)
    ELSE IF b.kind = "zero"
    THEN IF a.kind = "zero" THEN F64NaN ELSE F64Inf(a.sign * b.sign)
    ELSE IF a.kind = "zero" THEN F64Zero(a.sign * b.sign)
    ELSE F64Round[a.sign * b.sign, a.m, b.m, a.e - b.e]

\* the f64 nearest to root' * 2^e for the square root root' of x, from its
\* floor: a root that is not exact is followed by a bit that only breaks ties
F64RoundRoot[x \in Big, root \in Big, e \in Int] ==
    IF BigMul[root, root] = x THEN F64Round[1, root, <<1>>, e]
    ELSE F64Round[1, BigAdd[BigMulSmall[root, 2], <<1>>], <<1>>, e - 1]

\* a.sqrt(): sqrt(m * 2^e) is sqrt(x) * 2^((e - odd) / 2 - t) for
\* x = m * 2^(2 * t + odd), with odd the last bit of e and t three bits more
\* than the mantissa holds
F64Sqrt[a \in F64Value] ==
    IF a.kind = "nan" THEN F64NaN
    ELSE IF a.kind = "zero" THEN a
    ELSE IF a.sign < 0 THEN F64NaN
    ELSE IF a.kind = "inf" THEN a
    ELSE LET odd == a.e % 2
             t == F64_MANT_BITS + 3
         IN [x \in Big |-> F64RoundRoot[x, BigSqrt[x], (a.e - odd) \div 2 - t]]
                [BigShiftLeft[a.m, 2 * t + odd]]

\* a == 0.0
F64IsZero(a) == a.kind = "zero"
\* a < 0.0
F64IsNegative(a) == a.kind \in {"finite", "inf"} /\ a.sign < 0
\* a.is_infinite() || a.is_nan()
IsInfiniteOrNaN(a) == a.kind \in {"inf", "nan"}

----------------------------------------------------------------------------
(* f32: IEEE 754 binary32 values.  An f32 is held in the record of the f64
   it is equal to.  The f32 result of +, -, *, / and sqrt is the f64 result
   rounded to f32: the f64 mantissa has more than twice the bits of the f32
   mantissa and two, so rounding twice gives what rounding once gives. *)

F32_MANT_BITS == 24
F32_MAX_EXP == 128
F32_MIN_EXP == 0 - 149

\* sign * rounded * 2^e, which is infinite past the largest exponent
F32Pack[sign \in Int, rounded \in Big, e \in Int] ==
    IF rounded = <<>> THEN F64Zero(sign)
    ELSE IF BigBitLen[rounded] + e > F32_MAX_EXP THEN F64Inf(sign)
    ELSE F64Exact[sign, rounded, e]

\* an f32 next to sign * m * 2^e, for an m whose last drop bits are more than
\* the mantissa holds: the nearest f32 with ties to even, the next one
\* towards zero ("down") or the next one away from zero ("up")
F32RoundDrop[sign \in Int, m \in Big, e \in Int, direction \in STRING, drop \in Int] ==
    IF drop <= 0 THEN F32Pack[sign, m, e]
    ELSE [q \in Big |->
            [low \in Big |->
                F32Pack[sign,
                        IF low = <<>> \/ direction = "down" THEN q
                        ELSE IF direction = "up" THEN BigAdd[q, <<1>>]
                        ELSE F64Nearest[q, low, BigShiftLeft[<<1>>, drop - 1],
                                        FALSE],
                        e + drop]]
                [BigSub[m, BigShiftLeft[q, drop]]]]
            [BigShiftRight[m, drop]]

\* a subnormal result keeps fewer bits
F32RoundTo[sign \in Int, m \in Big, e \in Int, direction \in STRING] ==
    F32RoundDrop[sign, m, e, direction,
                 Max(BigBitLen[m] - F32_MANT_BITS, F32_MIN_EXP - e)]

\* the f32 nearest to an f64
F32Round[a \in F64Value] ==
    IF a.kind # "finite" THEN a ELSE F32RoundTo[a.sign, a.m, a.e, "nearest"]

\* the f32 nearest to n / d for a d other than zero, as a literal is read:
\* n is shifted until the quotient has twice the bits of the mantissa or
\* more, and the quotient is followed by a bit that tells whether a
\* remainder was left
F32Ratio[n \in Big, d \in Big] ==
    [scale \in Nat |->
        [qr \in Big \X Big |->
            F32RoundTo[1, BigAdd[BigMulSmall[qr[1], 2],
                                 IF qr[2] = <<>> THEN <<>> ELSE <<1>>],
                       0 - (scale + 1), "nearest"]]
            [BigDivMod[BigShiftLeft[n, scale], d]]]
        [2 * F32_MANT_BITS + Max(0, BigBitLen[d] - BigBitLen[n])]

\* n as f32, for an n of u32
AsF32[n \in Nat] == F32Round[F64FromInt[n]]

F32Add[a \in F64Value, b \in F64Value] == F32Round[F64Add[a, b]]
F32Sub[a \in F64Value, b \in F64Value] == F32Round[F64Sub[a, b]]
F32Mul[a \in F64Value, b \in F64Value] == F32Round[F64Mul[a, b]]
F32Div[a \in F64Value, b \in F64Value] == F32Round[F64Div[a, b]]
F32Sqrt[a \in F64Value] == F32Round[F64Sqrt[a]]

\* a < b, which no NaN is
F32Less(a, b) == F64IsNegative(F64Sub[a, b])

\* a.max(b) and a.min(b): of a NaN and a number, the number
F32Max[a \in F64Value, b \in F64Value] ==
    IF a.kind = "nan" THEN b
    ELSE IF b.kind = "nan" THEN a
    ELSE IF F32Less(a, b) THEN b ELSE a
F32Min[a \in F64Value, b \in F64Value] ==
    IF a.kind = "nan" THEN b
    ELSE IF b.kind = "nan" THEN a
    ELSE IF F32Less(b, a) THEN b ELSE a

----------------------------------------------------------------------------
(* sin, cos, acos and atan2 of f32.  The value of the function is worked out
   as a natural number of units of 2^-p, by its series, to many more bits
   than an f32 holds; the result is an f32 next to it.  Which of the two
   neighbours a libm returns is not specified, and a libm returns the
   nearest one for one argument and the other one for the next argument:
   each function takes the direction in which this result is rounded. *)

\* the bits after the point of a value of one of the functions and of pi
LibmBits == 96
PiBits == 256

Directions == {"nearest", "down", "up"}

\* a * b and a / b in units of 2^-p
FixMul[a \in Big, b \in Big, p \in Nat] == BigShiftRight[BigMul[a, b], p]
FixDiv[a \in Big, b \in Big, p \in Nat] == BigDivMod[BigShiftLeft[a, p], b][1]

\* pw / k - pw * t2 / (k + 2) + pw * t2^2 / (k + 4) - ...
AtanTerms[pw \in Big, t2 \in Big, p \in Nat, k \in Nat] ==
    IF pw = <<>> THEN <<>>
    ELSE BigSub[BigDivSmall[pw, k][1],
                AtanTerms[FixMul[pw, t2, p], t2, p, k + 2]]

\* atan(t) = t - t^3 / 3 + t^5 / 5 - ... for 0 <= t <= 1/2
AtanSeries[t \in Big, p \in Nat] == AtanTerms[t, FixMul[t, t, p], p, 1]

\* pi = 16 * atan(1/5) - 4 * atan(1/239), in units of 2^-PiBits
RealPi ==
    BigShiftRight[
        BigSub[BigMulSmall[AtanSeries[BigDivSmall[BigShiftLeft[<<1>>, PiBits + 16],
                                                  5][1], PiBits + 16], 16],
               BigMulSmall[AtanSeries[BigDivSmall[BigShiftLeft[<<1>>, PiBits + 16],
                                                  239][1], PiBits + 16], 4]],
        16]

\* pi in units of 2^-p
PiAt(p) == BigShiftRight[RealPi, PiBits - p]

\* atan(t) for 0 <= t <= 1: pi/4 - atan((1 - t) / (1 + t)) above 1/2
AtanFix[t \in Big, p \in Nat] ==
    IF BigCmp[BigMulSmall[t, 2], BigShiftLeft[<<1>>, p]] > 0
    THEN BigSub[BigShiftRight[PiAt(p), 2],
                AtanSeries[FixDiv[BigSub[BigShiftLeft[<<1>>, p], t],
                                  BigAdd[BigShiftLeft[<<1>>, p], t], p], p]]
    ELSE AtanSeries[t, p]

\* the angle of the point (den, num) for 0 <= num <= den and den > 0
AngleBelow[num \in Big, den \in Big, p \in Nat] == AtanFix[FixDiv[num, den, p], p]

\* the angle of the point (x, y) of the first quadrant other than (0, 0)
Angle[y \in Big, x \in Big, p \in Nat] ==
    IF BigCmp[y, x] <= 0 THEN AngleBelow[y, x, p]
    ELSE BigSub[BigShiftRight[PiAt(p), 1], AngleBelow[x, y, p]]

\* term - term * r2 / (d * (d + 1)) + term * r2^2 / (d * ... * (d + 3)) - ...
SinCosTerms[term \in Big, r2 \in Big, p \in Nat, d \in Nat] ==
    IF term = <<>> THEN <<>>
    ELSE BigSub[term,
                SinCosTerms[BigDivSmall[FixMul[term, r2, p], d * (d + 1)][1],
                            r2, p, d + 2]]

\* sin(r) = r - r^3 / 3! + ... and cos(r) = 1 - r^2 / 2! + ... for
\* 0 <= r < pi/2
SinSeries[r \in Big, p \in Nat] == SinCosTerms[r, FixMul[r, r, p], p, 2]
CosSeries[r \in Big, p \in Nat] ==
    SinCosTerms[BigShiftLeft[<<1>>, p], FixMul[r, r, p], p, 1]

\* the exponent of the first bit of a finite a other than zero
TopBit(a) == a.e + BigBitLen[a.m] - 1

\* |a| as quadrant * pi/2 + r with 0 <= r < pi/2, r in units of 2^-p; an a
\* below 1 is its own r and is held to more bits the smaller it is, an a from
\* 1 on is divided by a pi/2 of as many more bits as a has before the point
Reduced == [p : Nat, quadrant : 0..3, r : Big]
Reduce[a \in F64Value] ==
    IF TopBit(a) < 0
    THEN [p |-> LibmBits - 3 * TopBit(a), quadrant |-> 0,
          r |-> BigShiftLeft[a.m, a.e + LibmBits - 3 * TopBit(a)]]
    ELSE [qr \in Big \X Big |->
            [p |-> LibmBits, quadrant |-> Limb(qr[1], 1) % 4,
             r |-> BigShiftRight[qr[2], TopBit(a) + 1]]]
            [BigDivMod[BigShiftLeft[a.m, a.e + LibmBits + TopBit(a) + 1],
                       BigShiftRight[RealPi, PiBits - LibmBits - TopBit(a)]]]

\* a.sin()
Sin[a \in F64Value, direction \in Directions] ==
    IF a.kind \in {"nan", "inf"} THEN F64NaN
    ELSE IF a.kind = "zero" THEN a
    ELSE [red \in Reduced |->
            F32RoundTo[IF red.quadrant < 2 THEN a.sign ELSE 0 - a.sign,
                       IF red.quadrant % 2 = 0 THEN SinSeries[red.r, red.p]
                       ELSE CosSeries[red.r, red.p],
                       0 - red.p, direction]]
            [Reduce[a]]

\* a.cos()
Cos[a \in F64Value, direction \in Directions] ==
    IF a.kind \in {"nan", "inf"} THEN F64NaN
    ELSE IF a.kind = "zero" THEN F64FromInt[1]
    ELSE [red \in Reduced |->
            F32RoundTo[IF red.quadrant \in {0, 3} THEN 1 ELSE 0 - 1,
                       IF red.quadrant % 2 = 0 THEN CosSeries[red.r, red.p]
                       ELSE SinSeries[red.r, red.p],
                       0 - red.p, direction]]
            [Reduce[a]]

\* |a| in units of 2^-p, for a finite a other than zero
FixAbs[a \in F64Value, p \in Nat] ==
    IF a.e + p >= 0 THEN BigShiftLeft[a.m, a.e + p]
    ELSE BigShiftRight[a.m, 0 - (a.e + p)]

\* acos(x) for 0 < x < 1 in units of 2^-p: the angle of (x, sqrt(1 - x^2))
AcosFix[x \in Big, p \in Nat] ==
    Angle[BigSqrt[BigShiftLeft[BigSub[BigShiftLeft[<<1>>, p], FixMul[x, x, p]],
                               p]],
          x, p]

\* a.acos(): NaN outside [-1, 1], 0 at 1
Acos[a \in F64Value, direction \in Directions] ==
    IF a.kind \in {"nan", "inf"} THEN F64NaN
    ELSE IF a.kind = "zero"
    THEN F32RoundTo[1, BigShiftRight[PiAt(LibmBits), 1], 0 - LibmBits, direction]
    ELSE IF TopBit(a) >= 0
    THEN IF a.m # <<1>> \/ a.e # 0 THEN F64NaN
         ELSE IF a.sign > 0 THEN F64Zero(1)
         ELSE F32RoundTo[1, PiAt(LibmBits), 0 - LibmBits, direction]
    ELSE [angle \in Big |->
            F32RoundTo[1, IF a.sign > 0 THEN angle
                          ELSE BigSub[PiAt(LibmBits), angle],
                       0 - LibmBits, direction]]
            [AcosFix[FixAbs[a, LibmBits], LibmBits]]

\* the angle of the point (|x|, |y|) for finite x and y other than zero, in
\* units of 2^-p
AngleOf[y \in F64Value, x \in F64Value, p \in Nat] ==
    [e \in Int |-> Angle[BigShiftLeft[y.m, y.e - e], BigShiftLeft[x.m, x.e - e], p]]
        [IF y.e < x.e THEN y.e ELSE x.e]

\* y.atan2(x) for finite x and y other than zero: an angle below 1 towards
\* the positive x axis is held to more bits the smaller it is
Atan2Finite[y \in F64Value, x \in F64Value, direction \in Directions] ==
    IF x.sign > 0
    THEN [p \in Nat |-> F32RoundTo[y.sign, AngleOf[y, x, p], 0 - p, direction]]
            [LibmBits + 3 * Max(0, TopBit(x) - TopBit(y) + 1)]
    ELSE F32RoundTo[y.sign, BigSub[PiAt(LibmBits), AngleOf[y, x, LibmBits]],
                    0 - LibmBits, direction]

\* y.atan2(x): the angle has the sign of y; on the axes and at infinity it
\* is 0 or a multiple of pi/4
Atan2[y \in F64Value, x \in F64Value, direction \in Directions] ==
    IF y.kind = "nan" \/ x.kind = "nan" THEN F64NaN
    ELSE IF y.kind = "zero" \/ (x.kind = "inf" /\ y.kind # "inf")
    THEN IF x.sign > 0 THEN F64Zero(y.sign)
         ELSE F32RoundTo[y.sign, PiAt(LibmBits), 0 - LibmBits, direction]
    ELSE IF x.kind = "zero" \/ (y.kind = "inf" /\ x.kind # "inf")
    THEN F32RoundTo[y.sign, BigShiftRight[PiAt(LibmBits), 1], 0 - LibmBits,
                    direction]
    ELSE IF y.kind = "inf"
    THEN F32RoundTo[y.sign,
                    BigMulSmall[BigShiftRight[PiAt(LibmBits), 2],
                                IF x.sign > 0 THEN 1 ELSE 3],
                    0 - LibmBits, direction]
    ELSE Atan2Finite[y, x, direction]

----------------------------------------------------------------------------
(* Camera and projection *)

\* width as f32 / height as f32: width and height are rounded to f32 and so
\* is their quotient; a height of 0 gives the f32 infinity, or NaN for a
\* width of 0
Aspect(width, height) == F32Div[AsF32[width], AsF32[height]]

\* glm::perspective(aspect, 45 degrees, 0.1, 100.0): determined by the aspect
Perspective(aspect) == [aspect |-> aspect]

\* glm::look_at(eye, center, (0, 1, 0)): determined by eye and center
LookAt(eye, center) == [eye |-> eye, center |-> center]

\* std::f32::consts::PI and the literals 0.1 and 0.01 of rotate_camera
PI == F32RoundTo[1, RealPi, 0 - PiBits, "nearest"]
ThetaMin == F32Ratio[<<1>>, <<10>>]
DeltaScale == F32Ratio[<<1>>, <<100>>]

\* vectors of three f32
Vec3 == F64Value \X F64Value \X F64Value
vec3(x, y, z) == <<x, y, z>>
VecAdd(a, b) == <<F32Add[a[1], b[1]], F32Add[a[2], b[2]], F32Add[a[3], b[3]]>>
VecSub(a, b) == <<F32Sub[a[1], b[1]], F32Sub[a[2], b[2]], F32Sub[a[3], b[3]]>>

\* glm::length: the root of the sum of the squares, added from the first on
Length[v \in Vec3] ==
    F32Sqrt[F32Add[F32Add[F32Mul[v[1], v[1]], F32Mul[v[2], v[2]]],
                   F32Mul[v[3], v[3]]]]

\* theta.max(0.1).min(PI - 0.1)
ClampTheta(theta) == F32Min[F32Max[theta, ThetaMin], F32Sub[PI, ThetaMin]]

\* The libm of the build, as far as one call of rotate_camera sees it: the
\* direction of the result of atan2, of acos, of the sine and the cosine of
\* theta and of the sine and the cosine of phi.  theta.sin() is called twice
\* on the same theta and returns the same f32 twice, and so do the sine and
\* the cosine of a phi that is equal to theta.
Libm ==
    [atan2 : Directions, acos : Directions,
     sin_theta : Directions, cos_theta : Directions,
     sin_phi : Directions, cos_phi : Directions]

\* glm::length(&(self.camera_position - self.camera_target))
Distance[position \in Vec3, target \in Vec3] == Length[VecSub(position, target)]

\* to_target.z.atan2(to_target.x) + delta_x * 0.01
Phi[position \in Vec3, target \in Vec3, delta_x \in F64Value, atan2 \in Directions] ==
    [to_target \in Vec3 |->
        F32Add[Atan2[to_target[3], to_target[1], atan2],
               F32Mul[delta_x, DeltaScale]]]
        [VecSub(position, target)]

\* (to_target.y / distance).acos() + delta_y * 0.01, clamped
Theta[position \in Vec3, target \in Vec3, delta_y \in F64Value, acos \in Directions] ==
    [to_target \in Vec3 |->
        ClampTheta(F32Add[Acos[F32Div[to_target[2], Length[to_target]], acos],
                          F32Mul[delta_y, DeltaScale]])]
        [VecSub(position, target)]

\* the position at distance from target whose angles have these sines and
\* cosines
Position[target \in Vec3, distance \in F64Value, sin_theta \in F64Value, cos_theta \in F64Value, sin_phi \in F64Value, cos_phi \in F64Value] ==
    VecAdd(target,
           vec3(F32Mul[F32Mul[distance, sin_theta], cos_phi],
                F32Mul[distance, cos_theta],
                F32Mul[F32Mul[distance, sin_theta], sin_phi]))

\* the theta and the camera position that rotate_camera works out with a
\* libm: the distance and the angles phi and theta of the position seen from
\* the target, the deltas added to the angles, theta clamped, and the
\* position at these angles and this distance
Orbited == [theta : F64Value, position : Vec3]
Orbit[position \in Vec3, target \in Vec3, delta_x \in F64Value, delta_y \in F64Value, libm \in Libm] ==
    [phi \in F64Value |->
        [theta \in F64Value |->
            [theta |-> theta,
             position |->
                Position[target, Distance[position, target],
                         Sin[theta, libm.sin_theta],
                         Cos[theta, libm.cos_theta],
                         Sin[phi, IF phi = theta THEN libm.sin_theta
                                  ELSE libm.sin_phi],
                         Cos[phi, IF phi = theta THEN libm.cos_theta
                                  ELSE libm.cos_phi]]]]
            [Theta[position, target, delta_y, libm.acos]]]
        [Phi[position, target, delta_x, libm.atan2]]

\* an angle with the sine and the cosine that a libm may return for it
SinCos[angle \in F64Value] ==
    {[angle |-> angle, sin |-> s, cos |-> c] :
        s \in {Sin[angle, direction] : direction \in Directions},
        c \in {Cos[angle, direction] : direction \in Directions}}

\* the thetas and the phis of rotate_camera with their sines and cosines
Thetas[position \in Vec3, target \in Vec3, delta_y \in F64Value] ==
    UNION {SinCos[theta] :
              theta \in {Theta[position, target, delta_y, acos] :
                            acos \in Directions}}
Phis[position \in Vec3, target \in Vec3, delta_x \in F64Value] ==
    UNION {SinCos[phi] :
              phi \in {Phi[position, target, delta_x, atan2] :
                          atan2 \in Directions}}

\* what rotate_camera may work out: Orbit with every libm
OrbitAny[position \in Vec3, target \in Vec3, delta_x \in F64Value, delta_y \in F64Value] ==
    [distance \in F64Value |->
        {[theta |-> t.angle,
          position |-> Position[target, distance, t.sin, t.cos, p.sin, p.cos]] :
            <<t, p>> \in {tp \in Thetas[position, target, delta_y]
                                 \X Phis[position, target, delta_x] :
                             tp[1].angle = tp[2].angle => tp[1] = tp[2]}}]
        [Distance[position, target]]

InitialCameraPosition == vec3(F64FromInt[3], F64FromInt[3], F64FromInt[5])
InitialCameraTarget == vec3(F64Zero(1), F64Zero(1), F64Zero(1))
\* width and height of a canvas element that sets neither attribute
InitialCanvas == <<300, 150>>

----------------------------------------------------------------------------
(* GL commands *)

GL(call, arg) == [call |-> call, arg |-> arg]

CubeVertices ==
    << -1, -1,  1,    1, -1,  1,    1,  1,  1,   -1,  1,  1,
       -1, -1, -1,   -1,  1, -1,    1,  1, -1,    1, -1, -1 >>

CubeIndices ==
    << 0, 1, 2, 0, 2, 3,
       4, 5, 6, 4, 6, 7,
       4, 0, 3, 4, 3, 5,
       1, 7, 6, 1, 6, 2,
       3, 2, 6, 3, 6, 5,
       4, 7, 1, 4, 1, 0 >>

\* the GL commands of clear_geometry, upload_geometry and create_test_box
ClearCalls ==
    << GL("bindBuffer", 0), GL("bufferData", 0),
       GL("bindBuffer", 1), GL("bufferData", 0) >>

UploadCalls(vertices, indices) ==
    << GL("bindBuffer", 0), GL("bufferData", Len(vertices)),
       GL("bindBuffer", 1), GL("bufferData", Len(indices)) >>

\* compile_shader: 0 is the vertex shader, 1 the fragment shader
CompileShaderCalls(shader_type) ==
    << GL("createShader", shader_type), GL("shaderSource", shader_type),
       GL("compileShader", shader_type), GL("getShaderParameter", shader_type) >>

\* create_program
CreateProgramCalls ==
    CompileShaderCalls(0) \o CompileShaderCalls(1)
    \o << GL("createProgram", 0), GL("attachShader", 0), GL("attachShader", 1),
          GL("linkProgram", 0), GL("getProgramParameter", 0) >>

\* the GL commands of the constructor
NewCalls ==
    CreateProgramCalls
    \o << GL("getUniformLocation", 0), GL("getUniformLocation", 1),
          GL("createBuffer", 0), GL("createBuffer", 1),
          GL("enable", 0), GL("clearColor", 0) >>

RenderCalls(count) ==
    << GL("clear", 0), GL("useProgram", 0), GL("uniformMatrix4fv", 0),
       GL("uniform3f", 0), GL("bindBuffer", 0), GL("vertexAttribPointer", 0),
       GL("enableVertexAttribArray", 0), GL("bindBuffer", 1),
       GL("drawElements", count) >>

----------------------------------------------------------------------------
(* Inputs of the viewer specification *)

\* a primitive without a POSITION accessor
PrimNoPositions == Prim("Triangles", FALSE, 0, 0, NoIndices, <<>>)
\* MaxPositions positions without an index accessor
PrimUnindexed == Prim("Triangles", TRUE, MaxPositions, 1, NoIndices, <<>>)
\* one point whose 32-bit index exceeds the 16-bit range
PrimWide == Prim("Points", TRUE, 1, 3, 32, <<U16_MAX + 5>>)

ViewerPrims == {PrimNoPositions, PrimUnindexed, PrimWide}

PrimSeqs == UNION {[1..n -> ViewerPrims] : n \in 0..MaxMeshPrims}

\* no mesh, one mesh, or two meshes of one primitive each
ViewerScenes ==
    {<<>>}
    \cup {<<ps>> : ps \in PrimSeqs}
    \cup {<< <<p>>, <<q>> >> : p \in ViewerPrims, q \in ViewerPrims}

\* The bytes handed to load_gltf: their length, whether they start with the
\* magic "glTF", whether they are valid UTF-8, and what gltf::import_slice
\* makes of them (import_ok and the decoded meshes).
Asset(len, is_glb, utf8, import_ok, meshes) ==
    [len |-> len, is_glb |-> is_glb, utf8 |-> utf8, import_ok |-> import_ok,
     meshes |-> meshes]

TooSmallAssets == {Asset(n, FALSE, TRUE, FALSE, <<>>) : n \in {0, 3}}
MalformedAssets ==
    {Asset(4, FALSE, TRUE, FALSE, <<>>), Asset(4, FALSE, FALSE, FALSE, <<>>),
     Asset(12, TRUE, FALSE, FALSE, <<>>)}
DecodedAssets ==
    {Asset(100, TRUE, FALSE, TRUE, s) : s \in ViewerScenes}
    \cup {Asset(100, FALSE, TRUE, TRUE, <<>>)}

Assets == TooSmallAssets \cup MalformedAssets \cup DecodedAssets

\* the arguments of rotate_camera: a drag up to the right, a drag down to
\* the left that runs into the clamp, and a delta_x that is no number
OrbitInput(delta_x, delta_y) == [delta_x |-> delta_x, delta_y |-> delta_y]
OrbitInputs ==
    {OrbitInput(F64FromInt[150], F64FromInt[100]),
     OrbitInput(F64FromInt[0 - 150], F64FromInt[0 - 200]),
     OrbitInput(F64NaN, F64Zero(1))}

\* a camera: its position and its target
Camera(position, target) == <<position, target>>

\* the cameras that n calls of rotate_camera or fewer reach
Cameras[n \in Nat] ==
    IF n = 0 THEN {Camera(InitialCameraPosition, InitialCameraTarget)}
    ELSE [reached \in SUBSET (Vec3 \X Vec3) |->
            reached
            \cup UNION {{Camera(orbit.position, c[2]) :
                            orbit \in OrbitAny[c[1], c[2], i.delta_x, i.delta_y]} :
                           c \in reached, i \in OrbitInputs}]
            [Cameras[n - 1]]

\* OrbitAny on the cameras that rotate_camera is called on, worked out once
Orbits ==
    [c \in Cameras[MaxOrbits - 1], i \in OrbitInputs |->
        OrbitAny[c[1], c[2], i.delta_x, i.delta_y]] @@ <<>>

Sizes == {<<800, 600>>, <<640, 0>>}

----------------------------------------------------------------------------
(* The viewer *)

Call(op, arg, result) == [op |-> op, arg |-> arg, result |-> result]
NoAsset == Asset(0, FALSE, FALSE, FALSE, <<>>)

\* the canvas elements that new is given: the size of the canvas is the
\* page's choice
Canvases == {InitialCanvas, <<1024, 768>>}

\* the viewer that new returns for a canvas; the constructor sets no
\* viewport, which is the size the canvas had when its context was created
ViewerNew(canvas) ==
    /\ vertex_buffer = <<>>
    /\ index_buffer = <<>>
    /\ index_count = 0
    /\ camera_position = InitialCameraPosition
    /\ camera_target = InitialCameraTarget
    /\ view_matrix = LookAt(InitialCameraPosition, InitialCameraTarget)
    /\ projection_matrix = Perspective(Aspect(canvas[1], canvas[2]))
    /\ viewport = <<0, 0, canvas[1], canvas[2]>>
    /\ gl_calls = NewCalls
    /\ last_call = Call("new", NoAsset, "ok")
    /\ orbits = 0
    /\ panicked = FALSE

\* the viewer of the specifications that do not use it
ViewerInit == ViewerNew(InitialCanvas)

FlattenIdle ==
    /\ fl_scene = <<>>
    /\ fl_stage = "idle"
    /\ fl_flat = <<>>
    /\ fl_acc = EmptyAcc

\* no calculator function is being applied
CalcIdle ==
    /\ calc_kind = "idle"
    /\ calc_expr = <<>>
    /\ calc_a = [kind |-> "zero", sign |-> 1, m |-> <<>>, e |-> 0]
    /\ calc_b = [kind |-> "zero", sign |-> 1, m |-> <<>>, e |-> 0]
    /\ calc_stage = "idle"
    /\ calc_result = [ok |-> FALSE,
                      value |-> [kind |-> "none", sign |-> 1, m |-> <<>>, e |-> 0],
                      err |-> "none", calls |-> <<>>]

\* the interactive mode has not been started
InteractiveIdle ==
    /\ it_stdin = <<>>
    /\ it_pc = "idle"
    /\ it_stdout = <<>>

Init ==
    /\ \E canvas \in Canvases : ViewerNew(canvas)
    /\ overflow_checks \in BOOLEAN
    /\ FlattenIdle
    /\ CalcIdle
    /\ InteractiveIdle

\* mutant of TestBoxEffect: the index_count assignment is missing
TestBoxEffectNoCount(calls_before) ==
    /\ vertex_buffer' = CubeVertices
    /\ index_buffer' = CubeIndices
    /\ index_count' = index_count
    /\ gl_calls' = calls_before \o UploadCalls(CubeVertices, CubeIndices)

\* the buffer uploads and the index_count assignment of create_test_box
TestBoxEffect(calls_before) ==
    /\ vertex_buffer' = CubeVertices
    /\ index_buffer' = CubeIndices
    /\ index_count' = 36
    /\ gl_calls' = calls_before \o UploadCalls(CubeVertices, CubeIndices)

create_test_box ==
    /\ ~panicked
    /\ TestBoxEffect(<<>>)
    /\ last_call' = Call("create_test_box", NoAsset, "ok")
    /\ UNCHANGED <<view_matrix, projection_matrix, camera_position, camera_target,
                   viewport, orbits, panicked, overflow_checks, fl_vars,
                   calc_vars, it_vars>>

\* mutant of UploadEffect: index_count is taken from the vertex data
UploadEffectVertexLen(vertices, indices) ==
    /\ vertex_buffer' = vertices
    /\ index_buffer' = indices
    /\ index_count' = AsI32(Len(vertices))
    /\ gl_calls' = ClearCalls \o UploadCalls(vertices, indices)

\* upload_geometry, called after clear_geometry
UploadEffect(vertices, indices) ==
    /\ vertex_buffer' = vertices
    /\ index_buffer' = indices
    /\ index_count' = AsI32(Len(indices))
    /\ gl_calls' = ClearCalls \o UploadCalls(vertices, indices)

\* mutant of ImportSlice: an import error is swallowed
ImportSliceLenient(asset) == TRUE

\* the three arms of the parse all hand the bytes to gltf::import_slice
ImportSlice(asset) ==
    IF asset.is_glb THEN asset.import_ok
    ELSE IF asset.utf8 THEN asset.import_ok
    ELSE asset.import_ok

\* mutant of LoadFailed: clear_geometry runs before the bytes are checked
LoadFailedAfterClear(asset) ==
    /\ last_call' = Call("load_gltf", asset, "err")
    /\ gl_calls' = ClearCalls
    /\ vertex_buffer' = <<>>
    /\ index_buffer' = <<>>
    /\ UNCHANGED <<index_count, panicked>>

\* the early returns of load_gltf: Err before any GL command is issued
LoadFailed(asset) ==
    /\ last_call' = Call("load_gltf", asset, "err")
    /\ gl_calls' = <<>>
    /\ UNCHANGED <<vertex_buffer, index_buffer, index_count, panicked>>

\* an arithmetic overflow panic in the accumulation loop unwinds after
\* clear_geometry has run and before index_count is assigned
LoadPanicked(asset) ==
    /\ vertex_buffer' = <<>>
    /\ index_buffer' = <<>>
    /\ gl_calls' = ClearCalls
    /\ panicked' = TRUE
    /\ last_call' = Call("load_gltf", asset, "panic")
    /\ UNCHANGED index_count

\* mutant of load_gltf: a scene without geometry returns Ok with the
\* buffers still cleared
load_gltfNoFallback(asset) ==
    /\ ~panicked
    /\ UNCHANGED <<view_matrix, projection_matrix, camera_position, camera_target,
                   viewport, orbits, overflow_checks, fl_vars,
                   calc_vars, it_vars>>
    /\ IF asset.len < 4 \/ ~ImportSlice(asset)
       THEN LoadFailed(asset)
       ELSE IF Len(asset.meshes) = 0
       THEN /\ TestBoxEffect(<<>>)
            /\ last_call' = Call("load_gltf", asset, "ok")
            /\ UNCHANGED panicked
       ELSE LET acc == AccumulateMeshes(EmptyAcc, asset.meshes, overflow_checks) IN
            IF acc.panicked
            THEN LoadPanicked(asset)
            ELSE IF Len(acc.all_vertices) = 0
            THEN /\ UploadEffect(<<>>, <<>>)
                 /\ last_call' = Call("load_gltf", asset, "ok")
                 /\ UNCHANGED panicked
            ELSE /\ UploadEffect(acc.all_vertices, acc.all_indices)
                 /\ last_call' = Call("load_gltf", asset, "ok")
                 /\ UNCHANGED panicked

load_gltf(asset) ==
    /\ ~panicked
    /\ UNCHANGED <<view_matrix, projection_matrix, camera_position, camera_target,
                   viewport, orbits, overflow_checks, fl_vars,
                   calc_vars, it_vars>>
    /\ IF asset.len < 4 \/ ~ImportSlice(asset)
       THEN LoadFailed(asset)
       ELSE IF Len(asset.meshes) = 0
       THEN /\ TestBoxEffect(<<>>)
            /\ last_call' = Call("load_gltf", asset, "ok")
            /\ UNCHANGED panicked
       ELSE LET acc == AccumulateMeshes(EmptyAcc, asset.meshes, overflow_checks) IN
            IF acc.panicked
            THEN LoadPanicked(asset)
            ELSE IF Len(acc.all_vertices) = 0
            THEN /\ TestBoxEffect(ClearCalls)
                 /\ last_call' = Call("load_gltf", asset, "ok")
                 /\ UNCHANGED panicked
            ELSE /\ UploadEffect(acc.all_vertices, acc.all_indices)
                 /\ last_call' = Call("load_gltf", asset, "ok")
                 /\ UNCHANGED panicked

\* mutant of RenderCommands: the index_count == 0 early return is missing
RenderCommandsUnguarded(count) == RenderCalls(count)

\* the GL commands of one render call
RenderCommands(count) == IF count = 0 THEN <<>> ELSE RenderCalls(count)

render ==
    /\ ~panicked
    /\ gl_calls' = RenderCommands(index_count)
    /\ last_call' = Call("render", NoAsset, "ok")
    /\ UNCHANGED <<vertex_buffer, index_buffer, index_count, view_matrix,
                   projection_matrix, camera_position, camera_target, viewport,
                   orbits, panicked, overflow_checks, fl_vars,
                   calc_vars, it_vars>>

\* the camera goes to a position that Orbit gives with the libm of the build
rotate_camera(delta_x, delta_y) ==
    /\ ~panicked
    /\ orbits < MaxOrbits
    /\ orbits' = orbits + 1
    /\ \E orbit \in Orbits[Camera(camera_position, camera_target),
                           OrbitInput(delta_x, delta_y)] :
          /\ camera_position' = orbit.position
          /\ view_matrix' = LookAt(orbit.position, camera_target)
    /\ gl_calls' = <<>>
    /\ last_call' = Call("rotate_camera", NoAsset, "ok")
    /\ UNCHANGED <<vertex_buffer, index_buffer, index_count, projection_matrix,
                   camera_target, viewport, panicked, overflow_checks, fl_vars,
                   calc_vars, it_vars>>

\* mutant of resize: the view matrix is rebuilt from the constructor's camera
resizeResetView(width, height) ==
    /\ ~panicked
    /\ viewport' = <<0, 0, AsI32(width), AsI32(height)>>
    /\ projection_matrix' = Perspective(Aspect(width, height))
    /\ view_matrix' = LookAt(InitialCameraPosition, InitialCameraTarget)
    /\ gl_calls' = <<GL("viewport", 0)>>
    /\ last_call' = Call("resize", NoAsset, "ok")
    /\ UNCHANGED <<vertex_buffer, index_buffer, index_count,
                   camera_position, camera_target, orbits, panicked,
                   overflow_checks, fl_vars,
                   calc_vars, it_vars>>

resize(width, height) ==
    /\ ~panicked
    /\ viewport' = <<0, 0, AsI32(width), AsI32(height)>>
    /\ projection_matrix' = Perspective(Aspect(width, height))
    /\ gl_calls' = <<GL("viewport", 0)>>
    /\ last_call' = Call("resize", NoAsset, "ok")
    /\ UNCHANGED <<vertex_buffer, index_buffer, index_count, view_matrix,
                   camera_position, camera_target, orbits, panicked,
                   overflow_checks, fl_vars,
                   calc_vars, it_vars>>

Load == \E asset \in Assets : load_gltf(asset)
CreateTestBox == create_test_box
Render == render
RotateCamera ==
    \E input \in OrbitInputs : rotate_camera(input.delta_x, input.delta_y)
Resize == \E s \in Sizes : resize(s[1], s[2])

Next == Load \/ CreateTestBox \/ Render \/ RotateCamera \/ Resize

Spec == Init /\ [][Next]_vars

----------------------------------------------------------------------------
(* process_primitive and the accumulation loop as pure functions *)

UnindexedCounts == (0..MaxPositions) \cup {U16_MAX, U16_MAX + 1, U16_MAX + 2}
IndexSamples8 == {0, 2, 255}
IndexSamples16 == {0, 2, 5, U16_MAX}
IndexSamples32 == {0, 2, U16_MAX, U16_MAX + 1, U16_MAX + 2, 2 * U16_MAX + 1, I32_MAX}

\* U16_MAX positions, indexed as one triangle
PrimBig == Prim("Triangles", TRUE, U16_MAX, 4, 16, <<0, 1, 2>>)

\* positions and an index accessor without elements
PrimNoIndices == Prim("Triangles", TRUE, 3, 8, 16, <<>>)

FlattenPrims ==
    {PrimNoPositions, PrimBig}
    \cup {Prim("Triangles", TRUE, n, 1, NoIndices, <<>>) : n \in UnindexedCounts}
    \cup {Prim("Triangles", TRUE, 3, 5, 8, <<v>>) : v \in IndexSamples8}
    \cup {Prim("Triangles", TRUE, 3, 6, 16, <<v>>) : v \in IndexSamples16}
    \cup {Prim("Triangles", TRUE, 3, 7, 32, <<v>>) : v \in IndexSamples32}
    \cup {PrimNoIndices,
          Prim("Triangles", TRUE, 0, 8, 16, <<0>>),
          Prim("Lines", TRUE, 3, 9, 32, <<2, U16_MAX + 1, 0>>)}

FirstPrims == {PrimUnindexed, PrimBig, PrimNoPositions, PrimNoIndices, PrimWide}
SecondPrims == {PrimUnindexed, PrimNoPositions,
                Prim("Triangles", TRUE, 3, 6, 16, <<2, 1, 0>>),
                Prim("Triangles", TRUE, 3, 6, 16, <<0, 1, U16_MAX>>)}

FlattenScenes ==
    {<<>>}
    \cup {<< <<p>> >> : p \in FlattenPrims}
    \cup {<< <<p, q>> >> : p \in FirstPrims, q \in SecondPrims}
    \cup {<< <<p>>, <<q>> >> : p \in FirstPrims, q \in SecondPrims}

\* the primitives of a scene in the order the loops of load_gltf visit them
RECURSIVE ScenePrimitives(_)
ScenePrimitives(meshes) ==
    IF meshes = <<>> THEN <<>> ELSE Head(meshes) \o ScenePrimitives(Tail(meshes))

FlattenInit ==
    /\ ViewerInit
    /\ overflow_checks \in BOOLEAN
    /\ fl_scene \in FlattenScenes
    /\ fl_stage = "input"
    /\ fl_flat = <<>>
    /\ fl_acc = EmptyAcc
    /\ CalcIdle
    /\ InteractiveIdle

\* process_primitive applied to every primitive of the scene
Flatten ==
    /\ fl_stage = "input"
    /\ fl_stage' = "flattened"
    /\ fl_flat' = LET prims == ScenePrimitives(fl_scene)
                  IN [k \in 1..Len(prims) |-> process_primitive(prims[k])]
    /\ UNCHANGED <<fl_scene, fl_acc, viewer_vars, overflow_checks,
                   calc_vars, it_vars>>

\* the accumulation loop of load_gltf applied to the scene
Accumulate ==
    /\ fl_stage = "flattened"
    /\ fl_stage' = "accumulated"
    /\ fl_acc' = AccumulateMeshes(EmptyAcc, fl_scene, overflow_checks)
    /\ UNCHANGED <<fl_scene, fl_flat, viewer_vars, overflow_checks,
                   calc_vars, it_vars>>

FlattenNext == Flatten \/ Accumulate

FlattenSpec == FlattenInit /\ [][FlattenNext]_vars

----------------------------------------------------------------------------
(* The calculator: results and arithmetic functions *)

\* what stands where a result, a call or a printed line holds no number
NoValue == F64("none", 1, <<>>, 0)

\* a Result<f64, CalcError>; calls lists the arithmetic calls made on the way
Ok(value, calls) ==
    [ok |-> TRUE, value |-> value, err |-> "none", calls |-> calls]
Err(err, calls) ==
    [ok |-> FALSE, value |-> NoValue, err |-> err, calls |-> calls]

Arith(op, a, b) == [op |-> op, a |-> a, b |-> b]

\* strings are sequences of one-character strings
Str == Seq(STRING)

\* the values of the three records above
F64OrNone == F64Value \cup {NoValue}
ArithCall == [op : STRING, a : F64OrNone, b : F64OrNone]
CalcResult ==
    [ok : BOOLEAN, value : F64OrNone, err : STRING, calls : Seq(ArithCall)]

add(a, b) ==
    [result \in F64Value |->
        IF IsInfiniteOrNaN(result) THEN Err("InvalidExpression", <<>>)
        ELSE Ok(result, <<>>)][F64Add[a, b]]

subtract(a, b) ==
    [result \in F64Value |->
        IF IsInfiniteOrNaN(result) THEN Err("InvalidExpression", <<>>)
        ELSE Ok(result, <<>>)][F64Sub[a, b]]

multiply(a, b) ==
    [result \in F64Value |->
        IF IsInfiniteOrNaN(result) THEN Err("InvalidExpression", <<>>)
        ELSE Ok(result, <<>>)][F64Mul[a, b]]

\* mutant of divide: the b == 0.0 test is missing
divideUnchecked(a, b) ==
    [result \in F64Value |->
        IF IsInfiniteOrNaN(result) THEN Err("InvalidExpression", <<>>)
        ELSE Ok(result, <<>>)][F64Div[a, b]]

divide(a, b) ==
    IF F64IsZero(b) THEN Err("DivisionByZero", <<>>)
    ELSE [result \in F64Value |->
            IF IsInfiniteOrNaN(result) THEN Err("InvalidExpression", <<>>)
            ELSE Ok(result, <<>>)][F64Div[a, b]]

\* number < 0.0 is an error; otherwise number.sqrt(), which is NaN for NaN
square_root(number) ==
    IF F64IsNegative(number) THEN Err("InvalidExpression", <<>>)
    ELSE Ok(F64Sqrt[number], <<>>)

----------------------------------------------------------------------------
(* The calculator: strings *)

DigitChars == <<"0", "1", "2", "3", "4", "5", "6", "7", "8", "9">>
IsDigit(c) == \E d \in 1..Len(DigitChars) : DigitChars[d] = c
DigitOf(c) == (CHOOSE d \in 1..Len(DigitChars) : DigitChars[d] = c) - 1

UpperChars ==
    <<"A", "B", "C", "D", "E", "F", "G", "H", "I", "J", "K", "L", "M",
      "N", "O", "P", "Q", "R", "S", "T", "U", "V", "W", "X", "Y", "Z">>
LowerChars ==
    <<"a", "b", "c", "d", "e", "f", "g", "h", "i", "j", "k", "l", "m",
      "n", "o", "p", "q", "r", "s", "t", "u", "v", "w", "x", "y", "z">>

\* c.to_ascii_lowercase()
AsciiLower(c) ==
    IF \E i \in 1..Len(UpperChars) : UpperChars[i] = c
    THEN LowerChars[CHOOSE i \in 1..Len(UpperChars) : UpperChars[i] = c]
    ELSE c

Lowercase[s \in Str] == [i \in 1..Len(s) |-> AsciiLower(s[i])] \o <<>>

\* the value of the decimal digits lo..hi of s
BigFromDigits[s \in Str, lo \in Nat, hi \in Nat] ==
    IF lo > hi THEN <<>>
    ELSE IF lo = hi THEN BigFromNat[DigitOf(s[lo])]
    ELSE LET mid == (lo + hi) \div 2
         IN BigAdd[BigMul[BigFromDigits[s, lo, mid], BigPow10[hi - mid]],
                   BigFromDigits[s, mid + 1, hi]]

\* the digits of s without the zeros in front
StripZeros[s \in Str] ==
    IF \A i \in 1..Len(s) : s[i] = "0" THEN <<>>
    ELSE SubSeq(s, CHOOSE i \in 1..Len(s) :
                      s[i] # "0" /\ \A j \in 1..(i - 1) : s[j] = "0",
                Len(s))

\* the exponents past which every number is infinite or zero
F64_MAX_EXP10 == 310
F64_MIN_EXP10 == 0 - 330

\* the sum from which on the digits of an exponent are no longer added up
EXP_SATURATION == 65536

\* the value of the digits of an exponent: from the left, a digit is added
\* to ten times the sum while the sum is below the saturation, and left out
\* after that
ExponentValue[s \in Str] ==
    IF s = <<>> THEN 0
    ELSE [exponent \in Nat |->
            IF exponent < EXP_SATURATION
            THEN 10 * exponent + DigitOf(s[Len(s)])
            ELSE exponent]
         [ExponentValue[SubSeq(s, 1, Len(s) - 1)]]

\* the f64 nearest to sign * digits * 10^exp10; significant are the digits
\* from the first that is not zero on
F64FromDecimal[sign \in Int, digits \in Str, exp10 \in Int] ==
    [significant \in Str |->
        IF significant = <<>> THEN F64Zero(sign)
        ELSE IF Len(significant) + exp10 > F64_MAX_EXP10 THEN F64Inf(sign)
        ELSE IF Len(significant) + exp10 < F64_MIN_EXP10 THEN F64Zero(sign)
        ELSE F64Round[sign,
                      BigMul[BigFromDigits[significant, 1, Len(significant)],
                             BigPow10[Max(exp10, 0)]],
                      BigPow10[Max(0 - exp10, 0)], 0]]
    [StripZeros[digits]]

\* the first position from i on where s holds no digit
DigitsEnd[s \in Str, i \in Nat] ==
    CHOOSE j \in i..(Len(s) + 1) :
        /\ \A k \in i..(j - 1) : IsDigit(s[k])
        /\ j = Len(s) + 1 \/ ~IsDigit(s[j])

\* inf, infinity or nan in any case, or no number
ParseSpecial[sign \in Int, s \in Str] ==
    IF \/ Lowercase[s] = <<"i", "n", "f">>
       \/ Lowercase[s] = <<"i", "n", "f", "i", "n", "i", "t", "y">>
    THEN Ok(F64Inf(sign), <<>>)
    ELSE IF Lowercase[s] = <<"n", "a", "n">> THEN Ok(F64NaN, <<>>)
    ELSE Err("InvalidExpression", <<>>)

\* a number without its sign: digits with an optional point among them and
\* an optional exponent, or inf, infinity or nan in any case. The digits
\* before the point end at int_end, those after it at frac_end and those of
\* the exponent at exp_end.
ParseUnsigned[sign \in Int, s \in Str] ==
    [int_end \in Nat |->
        LET has_point == int_end <= Len(s) /\ s[int_end] = "."
            frac_start == IF has_point THEN int_end + 1 ELSE int_end
        IN [frac_end \in Nat |->
              LET digits == SubSeq(s, 1, int_end - 1)
                                \o SubSeq(s, frac_start, frac_end - 1)
                  has_exp == frac_end <= Len(s) /\ s[frac_end] \in {"e", "E"}
                  exp_signed == has_exp /\ frac_end + 1 <= Len(s)
                                        /\ s[frac_end + 1] \in {"+", "-"}
                  exp_start == IF exp_signed THEN frac_end + 2 ELSE frac_end + 1
              IN [exp_end \in Nat |->
                    LET exp_digits == SubSeq(s, exp_start, exp_end - 1)
                        exponent == IF ~has_exp THEN 0
                                    ELSE IF exp_signed /\ s[frac_end + 1] = "-"
                                    THEN 0 - ExponentValue[exp_digits]
                                    ELSE ExponentValue[exp_digits]
                    IN IF /\ digits # <<>>
                          /\ has_exp => exp_digits # <<>>
                          /\ exp_end = Len(s) + 1
                       THEN Ok(F64FromDecimal[sign, digits,
                                    exponent - (frac_end - frac_start)], <<>>)
                       ELSE ParseSpecial[sign, s]]
                 [IF has_exp THEN DigitsEnd[s, exp_start] ELSE frac_end]]
           [IF has_point THEN DigitsEnd[s, frac_start] ELSE int_end]]
    [DigitsEnd[s, 1]]

\* str::parse::<f64>: an optional sign and a number; nothing is trimmed
ParseF64[s \in Str] ==
    IF s = <<>> THEN Err("InvalidExpression", <<>>)
    ELSE ParseUnsigned[IF s[1] = "-" THEN 0 - 1 ELSE 1,
                       IF s[1] \in {"-", "+"} THEN Tail(s) ELSE s]

NotSpace(c) == c # " "

\* expr.replace(" ", "")
RemoveSpaces(s) == SelectSeq(s, NotSpace)

\* expr.rfind(c) as a position counted from 1; 0 is None
RFind(s, c) ==
    IF \E i \in 1..Len(s) : s[i] = c
    THEN CHOOSE i \in 1..Len(s) :
            s[i] = c /\ \A j \in (i + 1)..Len(s) : s[j] # c
    ELSE 0

Apply(op, a, b) ==
    CASE op = "add" -> add(a, b)
      [] op = "subtract" -> subtract(a, b)
      [] op = "multiply" -> multiply(a, b)
      [] op = "divide" -> divide(a, b)

\* the result of an arithmetic function on the values of two evaluated
\* operands, with the calls of the operands before its own
Binary(op, left, right) ==
    LET result == Apply(op, left.value, right.value)
    IN [result EXCEPT !.calls = left.calls \o right.calls
                                \o <<Arith(op, left.value, right.value)>>]

\* the splitter of expr: the last + if there is one, else the last -, else
\* the last *, else the last /; pos is 0 if expr holds none of them
Splitter(expr) ==
    IF RFind(expr, "+") # 0 THEN [pos |-> RFind(expr, "+"), op |-> "add"]
    ELSE IF RFind(expr, "-") # 0
    THEN [pos |-> RFind(expr, "-"), op |-> "subtract"]
    ELSE IF RFind(expr, "*") # 0
    THEN [pos |-> RFind(expr, "*"), op |-> "multiply"]
    ELSE [pos |-> RFind(expr, "/"), op |-> "divide"]

RECURSIVE evaluate_expression(_)
evaluate_expression(input) ==
    [expr \in Str |->
        LET pos == Splitter(expr).pos
            op == Splitter(expr).op
        IN IF pos = 0 THEN ParseF64[expr]
           ELSE IF pos = 1 /\ op = "subtract"
           THEN [number \in CalcResult |->
                    IF ~number.ok THEN number
                    ELSE Ok(F64Neg[number.value],
                            number.calls
                                \o <<Arith("neg", number.value, NoValue)>>)]
                [evaluate_expression(Tail(expr))]
           ELSE [left \in CalcResult |->
                    IF ~left.ok THEN left
                    ELSE [right \in CalcResult |->
                            IF ~right.ok
                            THEN Err(right.err, left.calls \o right.calls)
                            ELSE Binary(op, left, right)]
                         [evaluate_expression(SubSeq(expr, pos + 1, Len(expr)))]]
                [evaluate_expression(SubSeq(expr, 1, pos - 1))]]
    [RemoveSpaces(input)]
----------------------------------------------------------------------------
(* divide and evaluate_expression as pure functions *)

OperandTokens == {<<"0">>, <<"2">>, <<"3">>, <<"5">>, <<"1", "2">>}
OperatorTokens == {<<"+">>, <<"-">>, <<"*">>, <<"/">>}

\* token sequences: an operand followed by k operator-operand pairs
RECURSIVE TokenSeqs(_)
TokenSeqs(k) ==
    IF k = 0 THEN {<<t>> : t \in OperandTokens}
    ELSE {e \o <<o, t>> : e \in TokenSeqs(k - 1), o \in OperatorTokens,
                          t \in OperandTokens}

\* the tokens written one after the other with sep between them
RECURSIVE Join(_, _)
Join(tokens, sep) ==
    IF Len(tokens) = 1 THEN tokens[1]
    ELSE tokens[1] \o sep \o Join(Tail(tokens), sep)

\* numbers joined by binary operators, with or without blanks around the
\* operators
UnsignedExprs ==
    UNION {{Join(e, sep) : e \in TokenSeqs(k), sep \in {<<>>, <<" ">>}} :
           k \in 0..MaxOps}

\* the same with an optional leading minus
WellFormedExprs == UnsignedExprs \cup {<<"-">> \o e : e \in UnsignedExprs}

\* strings that are not of this form
MalformedExprs ==
    {<<>>, <<"x">>, <<"2", " ", "3">>, <<"5", "/">>, <<"+", "5">>,
     <<"2", "*", "-", "3">>, <<"2", "-", "-", "3">>, <<"/", "0">>,
     <<"5", "/", "0", "x">>, <<"x", "+", "5", "/", "0", "0">>}

Chars5Div0 == <<"5", " ", "/", " ", "0">>

\* expressions whose numbers have a point or an exponent or are not finite
FloatExprs ==
    {<<"1", ".", "5">>, <<".", "5">>, <<"5", ".">>, <<"1", "E", "2">>,
     <<"-", ".", "5">>, <<"1", "e", "+", "3">>, <<"1", "e", "-", "3">>,
     <<"0", ".", "1", "+", "0", ".", "2">>, <<"0", ".", "6", "*", "3">>,
     <<"5", "/", "0", ".", "0">>, <<"5", "/", "0", "e", "3">>,
     <<"5", "/", "-", "0">>, <<"5", "/", "0", ".", "5">>,
     <<"5", "/", "i", "n", "f">>, <<"2", "*", "i", "n", "f">>,
     <<"i", "n", "f">>, <<"-", "i", "n", "f">>, <<"I", "n", "f", "i", "n", "i", "t", "y">>,
     <<"n", "a", "n">>, <<"N", "a", "N", "/", "2">>,
     <<"1", "e", "3", "0", "8", "*", "1", "0">>,
     <<"1", "e", "3", "0", "8", "/", "0", ".", "1">>,
     <<"5", "e", "-", "3", "2", "4">>, <<"5", "e", "3", "2", "4">>}

Expressions == WellFormedExprs \cup MalformedExprs \cup FloatExprs

\* arguments of the divide command that are no fractions of small integers
OperandSamples ==
    {<<"-", "0">>, <<"i", "n", "f">>, <<"-", "i", "n", "f">>, <<"n", "a", "n">>,
     <<"0", ".", "1">>, <<"1", "e", "3", "0", "8">>, <<"5", "e", "-", "3", "2", "4">>}

DivideOperands ==
    {F64Div[F64FromInt[n], F64FromInt[d]] :
        n \in (0 - MaxOperand)..MaxOperand, d \in 1..MaxOperand}
    \cup {ParseF64[s].value : s \in OperandSamples}

CalcInit ==
    /\ ViewerInit
    /\ overflow_checks = FALSE
    /\ FlattenIdle
    /\ InteractiveIdle
    /\ calc_stage = "input"
    /\ calc_result = Err("none", <<>>)
    /\ \/ /\ calc_kind = "divide"
          /\ calc_a \in DivideOperands
          /\ calc_b \in DivideOperands
          /\ calc_expr = <<>>
       \/ /\ calc_kind = "evaluate"
          /\ calc_expr \in Expressions
          /\ calc_a = F64Zero(1)
          /\ calc_b = F64Zero(1)

Divide ==
    /\ calc_stage = "input"
    /\ calc_kind = "divide"
    /\ calc_stage' = "done"
    /\ calc_result' = divide(calc_a, calc_b)
    /\ UNCHANGED <<calc_kind, calc_expr, calc_a, calc_b, viewer_vars,
                   overflow_checks, fl_vars, it_vars>>

Evaluate ==
    /\ calc_stage = "input"
    /\ calc_kind = "evaluate"
    /\ calc_stage' = "done"
    /\ calc_result' = evaluate_expression(calc_expr)
    /\ UNCHANGED <<calc_kind, calc_expr, calc_a, calc_b, viewer_vars,
                   overflow_checks, fl_vars, it_vars>>

CalcNext == Divide \/ Evaluate

CalcSpec == CalcInit /\ [][CalcNext]_vars

----------------------------------------------------------------------------
(* run_interactive_mode: the read-evaluate-print loop *)

\* char::is_whitespace: the characters with the White_Space property, which
\* are U+0009 to U+000D, the space, U+0085, U+00A0 and those past U+00FF;
\* the latter stand here as their code points because a string of the model
\* holds no such character
WhiteSpace ==
    {"\t", "\n", "", "\f", "\r", " ", "", " ",
     "\\u1680", "\\u2000", "\\u2001", "\\u2002", "\\u2003", "\\u2004",
     "\\u2005", "\\u2006", "\\u2007", "\\u2008", "\\u2009", "\\u200A",
     "\\u2028", "\\u2029", "\\u202F", "\\u205F", "\\u3000"}

IsWhitespace(c) == c \in WhiteSpace

TrimStart[s \in Str] ==
    IF s # <<>> /\ IsWhitespace(s[1]) THEN TrimStart[Tail(s)] ELSE s

TrimEnd[s \in Str] ==
    IF s # <<>> /\ IsWhitespace(s[Len(s)])
    THEN TrimEnd[SubSeq(s, 1, Len(s) - 1)] ELSE s

\* input.trim()
Trim[s \in Str] == TrimEnd[TrimStart[s]]

\* input.starts_with(prefix)
StartsWith(s, prefix) ==
    Len(s) >= Len(prefix) /\ SubSeq(s, 1, Len(prefix)) = prefix

CharsQuit == <<"q", "u", "i", "t">>
CharsExit == <<"e", "x", "i", "t">>
CharsHelp == <<"h", "e", "l", "p">>
CharsSqrt == <<"s", "q", "r", "t", " ">>

\* a line written with println!: what it reports, the text or the input it
\* shows, the number it shows and the error it names; whole tells that all
\* of the line was written
Line(kind, input, value, err) ==
    [kind |-> kind, input |-> input, value |-> value, err |-> err,
     whole |-> TRUE]

\* a part of a line, other than nothing and other than all of it
Cut(line) == [line EXCEPT !.whole = FALSE]

\* a line of the banner or of print_help
Text(kind, text) == Line(kind, <<text>>, NoValue, "none")

\* the three lines that run_interactive_mode starts with
Banner ==
    <<Text("banner", "Calculator Interactive Mode"),
      Text("banner", "Enter mathematical expressions or 'quit' to exit"),
      Text("banner", "Examples: 2 + 3, 10 / 2, sqrt 16")>>

Goodbye == Line("goodbye", <<>>, NoValue, "none")

\* print_help
Help ==
    <<Text("help", "Available operations:"),
      Text("help", "  Basic: +, -, *, /"),
      Text("help", "  Special: sqrt <number>"),
      Text("help", "  Commands: help, quit, exit"),
      Text("help", "Examples:"),
      Text("help", "  2 + 3"),
      Text("help", "  10 / 2"),
      Text("help", "  sqrt 16"),
      Text("help", "  -5 + 3")>>

\* println! after println! of lines, on a standard output that holds stdout:
\* every line is written, or one of them cannot be written, and println!
\* panics after the lines before it and possibly a part of it
Printed(stdout, lines) ==
    {[ok |-> TRUE, stdout |-> stdout \o lines]}
    \cup UNION {{[ok |-> FALSE, stdout |-> stdout \o SubSeq(lines, 1, n) \o part] :
                    part \in {<<>>, <<Cut(lines[n + 1])>>}} :
                   n \in 0..(Len(lines) - 1)}

\* a byte of the input that belongs to no UTF-8 character
InvalidByte == "\\xff"

\* std::str::from_utf8(line).is_ok()
IsUtf8(line) == \A i \in 1..Len(line) : line[i] # InvalidByte

\* stdin.read_line: the next line with its newline, or nothing at the end
\* of the input, where it returns Ok(0); Err for a line that is not UTF-8
ReadLine(stdin) == IF stdin = <<>> THEN <<>> ELSE Head(stdin) \o <<"\n">>

\* the "sqrt " command
SqrtLine(input) ==
    LET number_str == SubSeq(input, Len(CharsSqrt) + 1, Len(input)) IN
    [number \in CalcResult |->
        IF ~number.ok
        THEN Line("error", input, NoValue, "Invalid number format")
        ELSE [result \in CalcResult |->
                IF result.ok THEN Line("sqrt", input, result.value, "none")
                ELSE Line("error", input, NoValue, result.err)]
             [square_root(number.value)]]
    [ParseF64[number_str]]

\* the line evaluated as an expression
ExpressionLine(input) ==
    [result \in CalcResult |->
        IF result.ok THEN Line("result", input, result.value, "none")
        ELSE Line("error", input, NoValue, result.err)]
    [evaluate_expression(input)]

LineSamples ==
    {CharsQuit, CharsExit \o <<"\r">>,
     <<" ", "\t", "">> \o CharsQuit \o <<" ">>, <<>>,
     CharsHelp, <<"2", "+", "3">>, Chars5Div0, <<"x">>,
     CharsSqrt \o <<"4">>, CharsSqrt \o <<"-", "4">>, CharsSqrt \o <<"x">>,
     CharsSqrt \o <<"2", ".", "2", "5">>, CharsSqrt \o <<"2">>,
     CharsSqrt \o <<"n", "a", "n">>, <<InvalidByte, InvalidByte>>}

\* the finite inputs: up to MaxLines lines followed by the end of the input
InteractiveInputs == UNION {[1..n -> LineSamples] : n \in 0..MaxLines}

\* run_interactive_mode has been called and has printed nothing
InteractiveInit ==
    /\ ViewerInit
    /\ overflow_checks = FALSE
    /\ FlattenIdle
    /\ CalcIdle
    /\ it_stdin \in InteractiveInputs
    /\ it_pc = "banner"
    /\ it_stdout = <<>>

\* the three println! of the banner
PrintBanner ==
    /\ it_pc = "banner"
    /\ \E out \in Printed(it_stdout, Banner) :
          /\ it_pc' = IF out.ok THEN "prompt" ELSE "panicked"
          /\ it_stdout' = out.stdout
    /\ UNCHANGED <<it_stdin, viewer_vars, overflow_checks, fl_vars, calc_vars>>

\* print!("calc> ") and the flush; the prompt ends no line and is not kept
\* in it_stdout. A flush that fails makes run_interactive_mode return the
\* error through `?`, and the process exits with status 1.
Prompt ==
    /\ it_pc = "prompt"
    /\ \E flushed \in BOOLEAN : it_pc' = IF flushed THEN "read" ELSE "failed"
    /\ UNCHANGED <<it_stdin, it_stdout, viewer_vars, overflow_checks, fl_vars,
                   calc_vars>>

\* what the loop does with a line that is not empty: the place it goes to
\* and the lines it prints
Command(input) ==
    IF input = CharsQuit \/ input = CharsExit
    THEN [pc |-> "done", lines |-> <<Goodbye>>]
    ELSE IF input = CharsHelp
    THEN [pc |-> "prompt", lines |-> Help]
    ELSE IF StartsWith(input, CharsSqrt)
    THEN [pc |-> "prompt", lines |-> <<SqrtLine(input)>>]
    ELSE [pc |-> "prompt", lines |-> <<ExpressionLine(input)>>]

\* the rest of one iteration of the loop, from read_line on. A read_line
\* that fails returns through `?` like the flush; a println! that cannot
\* write to the standard output panics.
ReadEvalPrint ==
    /\ it_pc = "read"
    /\ it_stdin' = IF it_stdin = <<>> THEN <<>> ELSE Tail(it_stdin)
    /\ IF ~IsUtf8(ReadLine(it_stdin))
       THEN it_pc' = "failed" /\ it_stdout' = it_stdout
       ELSE \E input \in {Trim[ReadLine(it_stdin)]} :
            IF input = <<>>
            THEN it_pc' = "prompt" /\ it_stdout' = it_stdout
            ELSE \E command \in {Command(input)} :
                    \E out \in Printed(it_stdout, command.lines) :
                        /\ it_pc' = IF out.ok THEN command.pc ELSE "panicked"
                        /\ it_stdout' = out.stdout
    /\ UNCHANGED <<viewer_vars, overflow_checks, fl_vars, calc_vars>>

InteractiveNext == PrintBanner \/ Prompt \/ ReadEvalPrint

InteractiveSpec == InteractiveInit /\ [][InteractiveNext]_vars

\* the process is running: whenever an iteration of the loop can take its
\* next step it does
InteractiveFairSpec == InteractiveSpec /\ WF_vars(InteractiveNext)

----------------------------------------------------------------------------
(* Properties of load_gltf, render and resize, checked under Spec *)

Min(a, b) == IF a < b THEN a ELSE b

LastLoad == last_call.op = "load_gltf"
TooSmall(asset) == asset.len < 4
ParserRejected(asset) == asset.len >= 4 /\ ~asset.import_ok
Decoded(asset) == asset.len >= 4 /\ asset.import_ok

\* no primitive of the scene flattens to geometry
NoGeometry(meshes) ==
    \A m \in 1..Len(meshes) : \A j \in 1..Len(meshes[m]) :
        process_primitive(meshes[m][j]).tag # "Some"

HasTriangles(meshes) ==
    \E m \in 1..Len(meshes) : \E j \in 1..Len(meshes[m]) :
        meshes[m][j].mode = "Triangles"

RECURSIVE SumIndices(_)
SumIndices(prims) ==
    IF prims = <<>> THEN 0
    ELSE Len(process_primitive(Head(prims)).indices) + SumIndices(Tail(prims))

\* total number of indices flattened over the primitives of a scene
FlattenedTotal(meshes) == SumIndices(ScenePrimitives(meshes))

DrawCalls == {k \in 1..Len(gl_calls) : gl_calls[k].call = "drawElements"}

\* C1: a load that returns an error (input shorter than 4 bytes, or rejected
\* by the parser) leaves index_count and the contents of both GPU buffers
\* exactly as they were before the call.
C1_FailedLoadKeepsGeometry ==
    [][(/\ last_call'.op = "load_gltf"
        /\ \/ last_call'.result = "err"
           \/ TooSmall(last_call'.arg)
           \/ ParserRejected(last_call'.arg))
       => (/\ last_call'.result = "err"
           /\ index_count' = index_count
           /\ vertex_buffer' = vertex_buffer
           /\ index_buffer' = index_buffer)]_vars

\* a failed load after a successful one: the geometry is still there
C1_Witness ==
    /\ LastLoad
    /\ last_call.result = "err"
    /\ index_count # 0
    /\ Len(index_buffer) = index_count
    /\ Len(vertex_buffer) > 0

\* C2 as stated: when the parser rejects bytes of length >= 4, load falls
\* back to the placeholder cube and returns success.
C2_ParserRejectFallsBack ==
    (LastLoad /\ ParserRejected(last_call.arg))
        => (/\ last_call.result = "ok"
            /\ vertex_buffer = CubeVertices
            /\ index_buffer = CubeIndices
            /\ index_count = 36)

\* C2 amended: when the parser rejects bytes of length >= 4, load returns an
\* error and issues no GL command, so no placeholder is uploaded.
C2_ParserRejectReturnsError ==
    (LastLoad /\ ParserRejected(last_call.arg))
        => (last_call.result = "err" /\ gl_calls = <<>>)

\* the parser rejected the bytes and the viewer is still without geometry
C2_Witness ==
    /\ LastLoad
    /\ ParserRejected(last_call.arg)
    /\ last_call.result = "err"
    /\ index_count = 0
    /\ vertex_buffer = <<>>

\* C3: a load that decodes but yields no geometry (no mesh, or every
\* primitive skipped) ends with the placeholder cube of 8 vertices and 36
\* indices, index_count == 36, and returns success.
C3_NoGeometryGivesCube ==
    (LastLoad /\ Decoded(last_call.arg) /\ NoGeometry(last_call.arg.meshes))
        => (/\ last_call.result = "ok"
            /\ vertex_buffer = CubeVertices
            /\ index_buffer = CubeIndices
            /\ Len(vertex_buffer) = 3 * 8
            /\ Len(index_buffer) = 36
            /\ index_count = 36)

\* a scene with meshes whose primitives are all skipped has been loaded
C3_Witness ==
    /\ LastLoad
    /\ Decoded(last_call.arg)
    /\ Len(last_call.arg.meshes) > 0
    /\ Len(ScenePrimitives(last_call.arg.meshes)) > 0
    /\ NoGeometry(last_call.arg.meshes)
    /\ index_count = 36

\* C8: render issues no GL command at all when index_count == 0, and
\* otherwise exactly one indexed draw whose count is index_count; a draw of
\* zero indices is never issued.
C8_RenderDrawsOnlyGeometry ==
    /\ \A k \in DrawCalls : gl_calls[k].arg # 0
    /\ last_call.op = "render" =>
          IF index_count = 0
          THEN gl_calls = <<>>
          ELSE /\ Cardinality(DrawCalls) = 1
               /\ \A k \in DrawCalls : gl_calls[k].arg = index_count
               /\ gl_calls[1].call = "clear"

\* render has been called on a viewer without geometry
C8_Witness ==
    /\ last_call.op = "render"
    /\ index_count = 0
    /\ gl_calls = <<>>

\* C9 as stated: after loading an asset that decodes and contains a triangle
\* primitive, index_count equals the total number of flattened indices and
\* is a multiple of 3.
C9_CountIsTotalAndMultipleOf3 ==
    (LastLoad /\ Decoded(last_call.arg) /\ HasTriangles(last_call.arg.meshes))
        => (/\ index_count = FlattenedTotal(last_call.arg.meshes)
            /\ index_count % 3 = 0)

\* C9 amended: after loading an asset that decodes and flattens to at least
\* one index, a load that returns success has set index_count to the total
\* number of flattened indices, which is the length of the index buffer; the
\* only other outcome is the overflow panic, which leaves index_count as it
\* was.
C9_CountIsTotal ==
    [][(last_call'.op = "load_gltf" /\ Decoded(last_call'.arg))
       => LET total == FlattenedTotal(last_call'.arg.meshes) IN
          total > 0 =>
             IF last_call'.result = "ok"
             THEN /\ index_count' = total
                  /\ Len(index_buffer') = total
             ELSE /\ last_call'.result = "panic"
                  /\ overflow_checks
                  /\ index_count' = index_count]_vars

\* a triangle primitive was loaded and the count is not a multiple of 3
C9_Witness ==
    /\ LastLoad
    /\ Decoded(last_call.arg)
    /\ HasTriangles(last_call.arg.meshes)
    /\ last_call.result = "ok"
    /\ index_count = FlattenedTotal(last_call.arg.meshes)
    /\ index_count % 3 # 0

\* C10: resize changes only the viewport and the projection matrix; the view
\* matrix, the camera position and target, index_count and both GPU buffers
\* are unchanged by it.
C10_ResizeKeepsViewAndGeometry ==
    [][last_call'.op = "resize"
       => (/\ view_matrix' = view_matrix
           /\ camera_position' = camera_position
           /\ camera_target' = camera_target
           /\ index_count' = index_count
           /\ vertex_buffer' = vertex_buffer
           /\ index_buffer' = index_buffer)]_vars

\* resize has changed the projection of a viewer that holds geometry and
\* whose camera has been moved
C10_Witness ==
    /\ last_call.op = "resize"
    /\ index_count # 0
    /\ camera_position # InitialCameraPosition
    /\ projection_matrix # Perspective(Aspect(InitialCanvas[1], InitialCanvas[2]))

\* the exact sum of two numbers that are finite or zero, and their exact
\* product, with mantissas of any size
ExactAdd[a \in F64Value, b \in F64Value] ==
    IF a.kind = "zero" THEN b
    ELSE IF b.kind = "zero" THEN a
    ELSE [e \in Int |->
            [na \in Big |->
                [nb \in Big |->
                    IF a.sign = b.sign THEN F64Exact[a.sign, BigAdd[na, nb], e]
                    ELSE IF BigCmp[na, nb] = 0 THEN F64Zero(1)
                    ELSE IF BigCmp[na, nb] > 0
                    THEN F64Exact[a.sign, BigSub[na, nb], e]
                    ELSE F64Exact[b.sign, BigSub[nb, na], e]]
                    [BigShiftLeft[b.m, b.e - e]]]
                [BigShiftLeft[a.m, a.e - e]]]
            [IF a.e < b.e THEN a.e ELSE b.e]
ExactMul[a \in F64Value, b \in F64Value] ==
    IF a.kind = "zero" \/ b.kind = "zero" THEN F64Zero(1)
    ELSE F64Exact[a.sign * b.sign, BigMul[a.m, b.m], a.e + b.e]
ExactSquare(a) == ExactMul[a, a]

IsNumber(a) == a.kind \in {"finite", "zero"}

\* |position - target|^2 as a real number, for components that are numbers
DistanceSquared(position, target) ==
    ExactAdd[ExactAdd[ExactSquare(ExactAdd[position[1], F64Neg[target[1]]]),
                      ExactSquare(ExactAdd[position[2], F64Neg[target[2]]])],
             ExactSquare(ExactAdd[position[3], F64Neg[target[3]]])]

\* the distance between position and target is a number
HasDistance(position, target) ==
    \A k \in 1..3 : IsNumber(position[k]) /\ IsNumber(target[k])

\* C11: an orbit leaves the camera target and the distance |position -
\* target| unchanged for every delta and every reachable camera; the theta
\* that it works out lies strictly between 0.1 and PI - 0.1; the projection
\* matrix, index_count and both buffers are unchanged.
C11_OrbitKeepsTargetAndDistance ==
    [][\A input \in OrbitInputs :
          rotate_camera(input.delta_x, input.delta_y)
          => (/\ camera_target' = camera_target
              /\ HasDistance(camera_position, camera_target)
              /\ HasDistance(camera_position', camera_target')
              /\ DistanceSquared(camera_position', camera_target')
                    = DistanceSquared(camera_position, camera_target)
              /\ \A orbit \in Orbits[Camera(camera_position, camera_target),
                                     input] :
                    orbit.position = camera_position'
                    => (/\ F32Less(ThetaMin, orbit.theta)
                        /\ F32Less(orbit.theta, F32Sub[PI, ThetaMin]))
              /\ projection_matrix' = projection_matrix
              /\ index_count' = index_count
              /\ vertex_buffer' = vertex_buffer
              /\ index_buffer' = index_buffer)]_vars

----------------------------------------------------------------------------
(* Properties of process_primitive and of the accumulation loop, checked
   under FlattenSpec *)

FlatPrimitive(k) == ScenePrimitives(fl_scene)[k]

\* C4: every explicit index value v is narrowed to min(v, 65535): 8-bit and
\* 16-bit values pass through unchanged and 32-bit values above 65535 are
\* clamped, never wrapped.
C4_NarrowIsMin ==
    fl_stage # "input" =>
        \A k \in 1..Len(fl_flat) :
            LET p == FlatPrimitive(k)
                r == fl_flat[k]
            IN (p.index_width # NoIndices /\ r.tag = "Some") =>
                  /\ Len(r.indices) = Len(p.index_values)
                  /\ \A i \in 1..Len(r.indices) :
                        /\ r.indices[i] = Min(p.index_values[i], U16_MAX)
                        /\ p.index_width # 32 => r.indices[i] = p.index_values[i]

\* a 32-bit index above 65535 has been narrowed
C4_Witness ==
    /\ fl_stage = "flattened"
    /\ \E k \in 1..Len(fl_flat) :
          /\ FlatPrimitive(k).index_width = 32
          /\ fl_flat[k].tag = "Some"
          /\ \E i \in 1..Len(fl_flat[k].indices) :
                /\ FlatPrimitive(k).index_values[i] > U16_MAX + 1
                /\ fl_flat[k].indices[i] = U16_MAX

\* C5: for every primitive with positions and no index accessor the
\* synthesized index sequence is exactly 0, 1, ..., n-1, n being the number
\* of positions, for every n, also above 65535.
C5_SequentialIndices ==
    fl_stage # "input" =>
        \A k \in 1..Len(fl_flat) :
            LET p == FlatPrimitive(k)
                r == fl_flat[k]
            IN (p.has_positions /\ p.index_width = NoIndices /\ p.position_count > 0) =>
                  /\ r.tag = "Some"
                  /\ Len(r.indices) = p.position_count
                  /\ \A i \in 1..Len(r.indices) : r.indices[i] = i - 1

\* C6: when two flattened primitives with m and n vertices are accumulated,
\* every index of the second equals its flattened index plus m, and the
\* vertex buffer holds 3*(m+n) floats.
C6_RebaseByVertexCount ==
    (/\ fl_stage = "accumulated"
     /\ Len(fl_flat) = 2
     /\ fl_flat[1].tag = "Some"
     /\ fl_flat[2].tag = "Some")
        => LET m == Len(fl_flat[1].vertices) \div 3
               n == Len(fl_flat[2].vertices) \div 3
               first == Len(fl_flat[1].indices)
           IN /\ ~fl_acc.panicked
              /\ Len(fl_acc.all_vertices) = 3 * (m + n)
              /\ Len(fl_acc.all_indices) = first + Len(fl_flat[2].indices)
              /\ \A k \in 1..Len(fl_flat[2].indices) :
                    fl_acc.all_indices[first + k] = fl_flat[2].indices[k] + m

\* C7: every flattened primitive has a non-empty index sequence whose values
\* are all below its own vertex count, and every index of the accumulated
\* index buffer is below the cumulative vertex count.
C7_IndicesInRange ==
    fl_stage = "accumulated" =>
        /\ \A k \in 1..Len(fl_flat) :
              fl_flat[k].tag = "Some" =>
                 /\ Len(fl_flat[k].indices) > 0
                 /\ \A i \in 1..Len(fl_flat[k].indices) :
                       fl_flat[k].indices[i] < Len(fl_flat[k].vertices) \div 3
        /\ ~fl_acc.panicked =>
              \A i \in 1..Len(fl_acc.all_indices) :
                  fl_acc.all_indices[i] < Len(fl_acc.all_vertices) \div 3

IsSome(r) == r.tag = "Some"

\* the primitives of the scene that flattened to geometry, in file order
Kept == SelectSeq(fl_flat, IsSome)

RECURSIVE KeptVertices(_)
KeptVertices(results) ==
    IF results = <<>> THEN <<>>
    ELSE Head(results).vertices \o KeptVertices(Tail(results))

\* the indices of the flattened primitives, each rebased by the number of
\* vertices before it, modulo 2^16
RECURSIVE KeptIndices(_, _)
KeptIndices(results, before) ==
    IF results = <<>> THEN <<>>
    ELSE LET r == Head(results) IN
         [k \in 1..Len(r.indices) |-> (r.indices[k] + before) % U16_MOD]
         \o KeptIndices(Tail(results), before + Len(r.vertices) \div 3)

\* some u16 addition over the flattened primitives exceeds 65535
RECURSIVE KeptOverflow(_, _)
KeptOverflow(results, before) ==
    /\ results # <<>>
    /\ LET r == Head(results)
           added == (Len(r.vertices) \div 3) % U16_MOD
       IN \/ \E k \in 1..Len(r.indices) : r.indices[k] + before > U16_MAX
          \/ before + added > U16_MAX
          \/ KeptOverflow(Tail(results), (before + added) % U16_MOD)

\* C14: within one load a primitive that is skipped adds nothing to the
\* accumulated vertices and indices, does not advance index_offset and does
\* not end the loops; the primitives that flatten to geometry appear in the
\* accumulated buffers in mesh-then-primitive file order, each rebased by
\* the vertices of the flattened primitives before it alone.
C14_SkippedContributeNothing ==
    fl_stage = "accumulated" =>
        IF fl_acc.panicked
        THEN overflow_checks /\ KeptOverflow(Kept, 0)
        ELSE /\ fl_acc.all_vertices = KeptVertices(Kept)
             /\ fl_acc.all_indices = KeptIndices(Kept, 0)
             /\ fl_acc.index_offset = (Len(KeptVertices(Kept)) \div 3) % U16_MOD
             /\ overflow_checks => ~KeptOverflow(Kept, 0)

\* a skipped primitive with positions comes first and a flattened one after
\* it: the buffers hold the second alone, at offset 0
C14_Witness ==
    /\ fl_stage = "accumulated"
    /\ ~fl_acc.panicked
    /\ Len(fl_flat) = 2
    /\ FlatPrimitive(1).position_count > 0
    /\ fl_flat[1].tag = "None"
    /\ fl_flat[2].tag = "Some"
    /\ fl_acc.all_indices = fl_flat[2].indices
    /\ fl_acc.all_vertices = fl_flat[2].vertices
    /\ fl_acc.index_offset = FlatPrimitive(2).position_count

----------------------------------------------------------------------------
(* Properties of the viewer's geometry state, checked under Spec *)

\* the flattened primitives of an asset, in file order
KeptOf(asset) ==
    LET prims == ScenePrimitives(asset.meshes)
    IN SelectSeq(Collect([k \in 1..Len(prims) |-> process_primitive(prims[k])]),
                 IsSome)

GeometryReplaced ==
    \/ last_call'.op = "create_test_box"
    \/ last_call'.op = "load_gltf" /\ last_call'.result = "ok"

\* C15: at every return of a public operation index_count is the number of
\* indices in the index buffer; after a successful load or create_test_box
\* both buffers hold the geometry of that call alone (the flattened
\* primitives of the asset, or the cube) and are not empty, and every other
\* operation leaves index_count and both buffers as they were. A call that
\* aborts in a panic does not return.
C15_CountMatchesIndexBuffer ==
    [][~panicked' =>
         /\ index_count' = Len(index_buffer')
         /\ IF GeometryReplaced
            THEN LET kept == IF last_call'.op = "load_gltf"
                             THEN KeptOf(last_call'.arg) ELSE <<>>
                 IN /\ index_buffer' # <<>>
                    /\ vertex_buffer' # <<>>
                    /\ IF kept = <<>>
                       THEN /\ vertex_buffer' = CubeVertices
                            /\ index_buffer' = CubeIndices
                       ELSE /\ vertex_buffer' = KeptVertices(kept)
                            /\ index_buffer' = KeptIndices(kept, 0)
            ELSE /\ index_count' = index_count
                 /\ vertex_buffer' = vertex_buffer
                 /\ index_buffer' = index_buffer]_vars

\* a load has cleared both buffers and uploaded the geometry of two
\* primitives: the state at its return is the uploaded one
C15_Witness ==
    /\ LastLoad
    /\ last_call.result = "ok"
    /\ Len(KeptOf(last_call.arg)) = 2
    /\ SubSeq(gl_calls, 1, Len(ClearCalls)) = ClearCalls
    /\ index_count = Len(index_buffer)
    /\ index_buffer = KeptIndices(KeptOf(last_call.arg), 0)
    /\ index_count # Len(CubeIndices)

----------------------------------------------------------------------------
(* Properties of divide and evaluate_expression, checked under CalcSpec *)

IsAdditive(c) == c \in {"+", "-"}
IsMultiplicative(c) == c \in {"*", "/"}
OpName(c) ==
    CASE c = "+" -> "add" [] c = "-" -> "subtract"
      [] c = "*" -> "multiply" [] c = "/" -> "divide"

\* position of the last binary operator of one precedence level; a minus at
\* position 1 is the sign, not a binary operator; 0 if there is none
LastBinary(s, IsLevel(_)) ==
    LET at == {i \in 2..Len(s) : IsLevel(s[i])}
    IN IF at = {} THEN 0 ELSE CHOOSE i \in at : \A j \in at : j <= i

\* the reference evaluator: binary operators of one precedence level group
\* from the left, * and / bind tighter than + and -, and a leading minus
\* negates the first term
RECURSIVE RefTerm(_)
RefTerm(s) ==
    LET pos == LastBinary(s, IsMultiplicative) IN
    IF pos = 0 THEN ParseF64[s]
    ELSE LET left == RefTerm(SubSeq(s, 1, pos - 1)) IN
         IF ~left.ok THEN left
         ELSE LET right == ParseF64[SubSeq(s, pos + 1, Len(s))] IN
              IF ~right.ok THEN right
              ELSE Binary(OpName(s[pos]), left, right)

RefFirstTerm(s) ==
    IF s # <<>> /\ s[1] = "-"
    THEN LET term == RefTerm(Tail(s)) IN
         IF ~term.ok THEN term
         ELSE Ok(F64Neg[term.value],
                 term.calls \o <<Arith("neg", term.value, NoValue)>>)
    ELSE RefTerm(s)

RECURSIVE RefSum(_)
RefSum(s) ==
    LET pos == LastBinary(s, IsAdditive) IN
    IF pos = 0 THEN RefFirstTerm(s)
    ELSE LET left == RefSum(SubSeq(s, 1, pos - 1)) IN
         IF ~left.ok THEN left
         ELSE LET right == RefTerm(SubSeq(s, pos + 1, Len(s))) IN
              IF ~right.ok THEN right
              ELSE Binary(OpName(s[pos]), left, right)

Reference(expr) == RefSum(RemoveSpaces(expr))

\* the characters that evaluate_expression splits at
IsOperator(c) == IsAdditive(c) \/ IsMultiplicative(c)

\* what stands between position i of s and the next operator
OperandAfter(s, i) ==
    SubSeq(s, i + 1,
           (CHOOSE j \in (i + 1)..(Len(s) + 1) :
               /\ \A k \in (i + 1)..(j - 1) : ~IsOperator(s[k])
               /\ j = Len(s) + 1 \/ IsOperator(s[j])) - 1)

\* some division sign of the expression is followed by a number equal to zero
HasZeroDivisor(expr) ==
    LET s == RemoveSpaces(expr) IN
    \E i \in 1..Len(s) :
        /\ s[i] = "/"
        /\ ParseF64[OperandAfter(s, i)].ok
        /\ F64IsZero(ParseF64[OperandAfter(s, i)].value)

\* C12: divide(a, b) returns the DivisionByZero error exactly when b is
\* zero (0.0 or -0.0), for every a, and then carries no number; a result it
\* returns for another b is the f64 quotient. Evaluating an expression in
\* which a division sign is followed by a zero operand, such as "5 / 0", is
\* an error.
C12_DivideByZeroIsError ==
    calc_stage = "done" =>
        /\ calc_kind = "divide" =>
              /\ (calc_result.err = "DivisionByZero") <=> F64IsZero(calc_b)
              /\ F64IsZero(calc_b) =>
                    ~calc_result.ok /\ calc_result.value = NoValue
              /\ calc_result.ok =>
                    /\ calc_result.value = F64Div[calc_a, calc_b]
                    /\ calc_result.value.kind \in {"finite", "zero"}
        /\ (calc_kind = "evaluate" /\ HasZeroDivisor(calc_expr)) =>
              /\ ~calc_result.ok
              /\ calc_result.value = NoValue
        /\ calc_expr = Chars5Div0 => calc_result.err = "DivisionByZero"

\* "5 / 0" has been evaluated: divide was called with a zero divisor and
\* the evaluation ended in the DivisionByZero error
C12_Witness ==
    /\ calc_stage = "done"
    /\ calc_kind = "evaluate"
    /\ calc_expr = Chars5Div0
    /\ ~calc_result.ok
    /\ calc_result.err = "DivisionByZero"
    /\ calc_result.calls = <<Arith("divide", F64FromInt[5], F64Zero(1))>>

\* C13: for every expression built from numbers and the binary operators
\* + - * / with an optional leading minus, evaluate_expression gives * and /
\* precedence over + and -, groups operators of equal precedence from the
\* left, and returns what the reference evaluator returns: the same outcome,
\* the same value and the same arithmetic calls on the same operands.
C13_StandardPrecedenceAndGrouping ==
    (calc_stage = "done" /\ calc_kind = "evaluate"
        /\ calc_expr \in WellFormedExprs) =>
        LET reference == Reference(calc_expr) IN
        /\ calc_result.ok = reference.ok
        /\ calc_result.err = reference.err
        /\ calc_result.value = reference.value
        /\ calc_result.ok => calc_result.calls = reference.calls

----------------------------------------------------------------------------
(* Properties of run_interactive_mode, checked under InteractiveFairSpec *)

\* C16: for every finite input the interactive mode eventually terminates:
\* it leaves the loop at the first quit or exit line, an erroring line does
\* not end it, and it does not run forever once the input is exhausted.
C16_InteractiveTerminates == <>(it_pc \in {"done", "failed", "panicked"})

====
